---- MODULE Spec2Model ----
(***************************************************************************)
(* Model of the resume builder backend: the pydantic models of             *)
(* backend/models/resume_models.py, the three request handlers of          *)
(* backend/api/endpoints.py and the renderer entry points they call.       *)
(*                                                                         *)
(* A JSON value is a record [t, s, n, l, d]: t is the JSON type and the     *)
(* payload is s (the code points of a string), n (a number), l (the items  *)
(* of a list) or d (the entries of a mapping, in the order they were       *)
(* written).  A string is the sequence of its Unicode code points, so that *)
(* length, pattern and emoji-range checks are computed on code points as   *)
(* pydantic and the re module compute them.                                *)
(***************************************************************************)
EXTENDS Integers, Sequences, FiniteSets, TLC

VARIABLES resume_data, edits, pc, flow, resp, calls, inflight

vars == <<resume_data, edits, pc, flow, resp, calls, inflight>>

-----------------------------------------------------------------------------
(* JSON values *)

Value(t, str, num, items, entries) ==
  [t |-> t, s |-> str, n |-> num, l |-> items, d |-> entries]

Null == Value("null", <<>>, 0, <<>>, <<>>)
Str(s) == Value("str", s, 0, <<>>, <<>>)
Num(n) == Value("int", <<>>, n, <<>>, <<>>)
List(xs) == Value("list", <<>>, 0, xs, <<>>)
Dict(entries) == Value("dict", <<>>, 0, <<>>, entries)

\* one entry of a mapping
E(key, val) == [key |-> key, val |-> val]

\* the marker of a key that is not present in a mapping (never a JSON value)
Absent == Value("absent", <<>>, 0, <<>>, <<>>)

Keys(d) == {d.d[i].key : i \in 1..Len(d.d)}

\* d.get(key), Absent when the mapping has no such key
Get(d, key) ==
  IF key \in Keys(d)
  THEN d.d[CHOOSE i \in 1..Len(d.d) : d.d[i].key = key].val
  ELSE Absent

-----------------------------------------------------------------------------
(* Sequences *)

RECURSIVE Flatten(_)
Flatten(ss) == IF ss = <<>> THEN <<>> ELSE Head(ss) \o Flatten(Tail(ss))

\* s repeated n times
Rep(s, n) == [i \in 1..(n * Len(s)) |-> s[((i - 1) % Len(s)) + 1]]

\* the members of the set of integers S that lie in lo..hi, ascending
RECURSIVE Ascending(_, _, _)
Ascending(S, lo, hi) ==
  IF lo > hi THEN <<>>
  ELSE IF lo = hi THEN (IF lo \in S THEN <<lo>> ELSE <<>>)
  ELSE LET mid == (lo + hi) \div 2
       IN Ascending(S, lo, mid) \o Ascending(S, mid + 1, hi)

SeqCount(s, P(_)) == Cardinality({i \in 1..Len(s) : P(s[i])})

-----------------------------------------------------------------------------
(* Code points and the character classes the source relies on *)

\* the code points of the characters the inputs are written with
Ch ==
  [sp |-> 32, tab |-> 9, nl |-> 10, nbsp |-> 160, comma |-> 44, dot |-> 46,
   at |-> 64, plus |-> 43, minus |-> 45, lpar |-> 40, rpar |-> 41,
   slash |-> 47, d0 |-> 48, d1 |-> 49, d2 |-> 50, d5 |-> 53,
   A |-> 65, J |-> 74, N |-> 78, P |-> 80, X |-> 88,
   a |-> 97, b |-> 98, c |-> 99, e |-> 101, j |-> 106, n |-> 110,
   r |-> 114, s |-> 115, t |-> 116, u |-> 117, w |-> 119, y |-> 121,
   eacute |-> 233,
   arabic0 |-> 1632, arabic2 |-> 1634,   \* U+0660, U+0662 ARABIC-INDIC DIGITS
   circledM |-> 9410,                    \* U+24C2
   check |-> 9989,                       \* U+2705
   cjk |-> 20013,                        \* U+4E2D
   flag |-> 127482,                      \* U+1F1FA
   globe |-> 127757,                     \* U+1F30D
   grin |-> 128512,                      \* U+1F600
   rocket |-> 128640]                    \* U+1F680

\* str.isspace(): the characters str.split() and str.strip() treat as whitespace
IsSpace(c) ==
  \/ c \in 9..13 \/ c \in 28..32 \/ c = 133 \/ c = 160 \/ c = 5760
  \/ c \in 8192..8202 \/ c \in {8232, 8233, 8239, 8287, 12288}

\* \s of a Unicode pattern: the characters with the property White_Space
IsWhiteSpace(c) ==
  \/ c \in 9..13 \/ c = 32 \/ c = 133 \/ c = 160 \/ c = 5760
  \/ c \in 8192..8202 \/ c \in {8232, 8233, 8239, 8287, 12288}

\* [A-Z]
IsUpper(c) == c \in 65..90

\* \d of a Unicode pattern: every decimal digit (category Nd); the blocks
\* listed are ASCII, Arabic-Indic, Extended Arabic-Indic, Devanagari, Fullwidth
IsDigit(c) ==
  \/ c \in 48..57 \/ c \in 1632..1641 \/ c \in 1776..1785
  \/ c \in 2406..2415 \/ c \in 65296..65305

\* the character class of emoji_pattern:
\*   U+1F600-1F64F, U+1F300-1F5FF, U+1F680-1F6FF, U+1F1E0-1F1FF,
\*   U+2702-27B0, U+24C2-1F251
InEmojiClass(c) ==
  \/ c \in 128512..128591
  \/ c \in 127744..128511
  \/ c \in 128640..128767
  \/ c \in 127456..127487
  \/ c \in 9986..10160
  \/ c \in 9410..127569

\* emoji_pattern.match(v): the pattern tried at the start of the text only
emoji_match(s) == s # <<>> /\ InEmojiClass(s[1])

\* emoji_pattern.search(v) is not None
emoji_search(s) == \E i \in 1..Len(s) : InEmojiClass(s[i])

-----------------------------------------------------------------------------
(* str methods *)

\* v.split(): the maximal runs of non-whitespace characters, in order; a
\* run starts after a whitespace character (or at the start) and ends before
\* one (or at the end)
split(s) ==
  LET n == Len(s)
      first == {i \in 1..n : ~IsSpace(s[i]) /\ (i = 1 \/ IsSpace(s[i - 1]))}
      last == {i \in 1..n : ~IsSpace(s[i]) /\ (i = n \/ IsSpace(s[i + 1]))}
      starts == Ascending(first, 1, n)
      ends == Ascending(last, 1, n)
  IN [k \in 1..Len(starts) |-> SubSeq(s, starts[k], ends[k])]

\* v.strip()
strip(s) ==
  LET keep == {i \in 1..Len(s) : ~IsSpace(s[i])}
  IN IF keep = {} THEN <<>>
     ELSE LET lo == CHOOSE i \in keep : \A k \in keep : i <= k
              hi == CHOOSE i \in keep : \A k \in keep : i >= k
          IN SubSeq(s, lo, hi)

\* v.split(','): the pieces between the commas, empty pieces included
RECURSIVE split_on(_, _, _, _)
split_on(s, sep, i, cur) ==
  IF i > Len(s) THEN <<cur>>
  ELSE IF s[i] = sep THEN <<cur>> \o split_on(s, sep, i + 1, <<>>)
       ELSE split_on(s, sep, i + 1, Append(cur, s[i]))

split_comma(s) == split_on(s, Ch.comma, 1, <<>>)

-----------------------------------------------------------------------------
(* The patterns of the Field declarations *)

StrPresent == <<Ch.P, Ch.r, Ch.e, Ch.s, Ch.e, Ch.n, Ch.t>>

\* the pattern of an end date where that of a date belongs
date_or_present_pattern(s) ==
  \/ s = StrPresent
  \/ /\ Len(s) = 8
     /\ \A i \in 1..3 : IsUpper(s[i])
     /\ s[4] = Ch.sp
     /\ \A i \in 5..8 : IsDigit(s[i])

\* ^[A-Z]{3} \d{4}$
date_pattern(s) ==
  /\ Len(s) = 8
  /\ \A i \in 1..3 : IsUpper(s[i])
  /\ s[4] = Ch.sp
  /\ \A i \in 5..8 : IsDigit(s[i])

\* ^[A-Z]{3} \d{4}$|^Present$
end_date_pattern(s) == date_pattern(s) \/ s = StrPresent

\* ^[^@]+@[^@]+\.[^@]+$
email_pattern(s) ==
  /\ SeqCount(s, LAMBDA c : c = Ch.at) = 1
  /\ LET p == CHOOSE i \in 1..Len(s) : s[i] = Ch.at
     IN /\ p > 1
        /\ \E i \in (p + 2)..(Len(s) - 1) : s[i] = Ch.dot

\* ^\+?[\d\s\-\(\)]+$
phone_pattern(s) ==
  LET body == IF s # <<>> /\ s[1] = Ch.plus THEN Tail(s) ELSE s
      InClass(c) == IsDigit(c) \/ IsWhiteSpace(c) \/ c \in {Ch.minus, Ch.lpar, Ch.rpar}
  IN body # <<>> /\ \A i \in 1..Len(body) : InClass(body[i])

matches(pattern, s) ==
  CASE pattern = "date" -> date_pattern(s)
    [] pattern = "end_date" -> end_date_pattern(s)
    [] pattern = "email" -> email_pattern(s)
    [] pattern = "phone" -> phone_pattern(s)
    [] OTHER -> TRUE

-----------------------------------------------------------------------------
(* pydantic: validation results and error records *)

\* an item of an error's loc tuple: a field name or a list index
LocKey(k) == [t |-> "key", k |-> k, i |-> 0]
LocIdx(i) == [t |-> "idx", k |-> "", i |-> i]

\* a message is the sequence of the fragments it is formatted from
Err(loc, type, msg, input) ==
  [loc |-> loc, type |-> type, msg |-> msg, input |-> input]

Ok(val) == [ok |-> TRUE, val |-> val, errs |-> <<>>]
Fail(errs) == [ok |-> FALSE, val |-> Null, errs |-> errs]

\* raise ValueError(msg) inside a field validator
ValueError(loc, msg, input) ==
  Fail(<<Err(loc, "value_error", <<"Value error, ">> \o msg, input)>>)

\* a str field that takes a number for the text of the number
str_schema_coerces(raw, loc, c) ==
  IF raw.t = "int" THEN Ok(Str(<<Ch.d5>>))
  ELSE IF raw.t # "str"
  THEN Fail(<<Err(loc, "string_type", <<"Input should be a valid string">>, raw)>>)
  ELSE IF "min_length" \in DOMAIN c /\ Len(raw.s) < c.min_length
  THEN Fail(<<Err(loc, "string_too_short",
                  <<"String should have at least ", ToString(c.min_length),
                    " character">>, raw)>>)
  ELSE IF "max_length" \in DOMAIN c /\ Len(raw.s) > c.max_length
  THEN Fail(<<Err(loc, "string_too_long",
                  <<"String should have at most ", ToString(c.max_length),
                    " characters">>, raw)>>)
  ELSE IF "pattern" \in DOMAIN c /\ ~matches(c.pattern, raw.s)
  THEN Fail(<<Err(loc, "string_pattern_mismatch",
                  <<"String should match pattern ", c.pattern>>, raw)>>)
  ELSE Ok(raw)

\* a str field whose max_length is taken as an exclusive bound
str_schema_exclusive_max(raw, loc, c) ==
  IF raw.t # "str"
  THEN Fail(<<Err(loc, "string_type", <<"Input should be a valid string">>, raw)>>)
  ELSE IF "min_length" \in DOMAIN c /\ Len(raw.s) < c.min_length
  THEN Fail(<<Err(loc, "string_too_short",
                  <<"String should have at least ", ToString(c.min_length),
                    " character">>, raw)>>)
  ELSE IF "max_length" \in DOMAIN c /\ Len(raw.s) >= c.max_length
  THEN Fail(<<Err(loc, "string_too_long",
                  <<"String should have at most ", ToString(c.max_length),
                    " characters">>, raw)>>)
  ELSE IF "pattern" \in DOMAIN c /\ ~matches(c.pattern, raw.s)
  THEN Fail(<<Err(loc, "string_pattern_mismatch",
                  <<"String should match pattern ", c.pattern>>, raw)>>)
  ELSE Ok(raw)

\* a str field with the constraints c of its Field(...) declaration:
\* the type first, then min_length, max_length and pattern; the first
\* failure is the field's one error
str_schema(raw, loc, c) ==
  IF raw.t # "str"
  THEN Fail(<<Err(loc, "string_type", <<"Input should be a valid string">>, raw)>>)
  ELSE IF "min_length" \in DOMAIN c /\ Len(raw.s) < c.min_length
  THEN Fail(<<Err(loc, "string_too_short",
                  <<"String should have at least ", ToString(c.min_length),
                    " character">>, raw)>>)
  ELSE IF "max_length" \in DOMAIN c /\ Len(raw.s) > c.max_length
  THEN Fail(<<Err(loc, "string_too_long",
                  <<"String should have at most ", ToString(c.max_length),
                    " characters">>, raw)>>)
  ELSE IF "pattern" \in DOMAIN c /\ ~matches(c.pattern, raw.s)
  THEN Fail(<<Err(loc, "string_pattern_mismatch",
                  <<"String should match pattern ", c.pattern>>, raw)>>)
  ELSE Ok(raw)

\* a str field declared without constraints
Unconstrained == [strict |-> FALSE]

\* Optional[str]: None is accepted as it is
optional_str_schema(raw, loc, c) ==
  IF raw.t = "null" THEN Ok(Null) ELSE str_schema(raw, loc, c)

\* a @field_validator (mode "after"): it runs only on a value that passed the
\* field's own schema; V gives the message of the ValueError it raises, or
\* <<>> when it returns v
after(r, loc, V(_)) ==
  IF ~r.ok THEN r
  ELSE LET msg == V(r.val)
       IN IF msg = <<>> THEN r ELSE ValueError(loc, msg, r.val)

\* List[...] with min_length: every item is validated and all item errors are
\* collected; the length is checked when no item failed
list_schema(raw, loc, min_length, Item(_, _)) ==
  IF raw.t # "list"
  THEN Fail(<<Err(loc, "list_type", <<"Input should be a valid list">>, raw)>>)
  ELSE LET rs == [i \in 1..Len(raw.l) |-> Item(raw.l[i], Append(loc, LocIdx(i - 1)))]
           errs == Flatten([i \in 1..Len(raw.l) |-> rs[i].errs])
       IN IF Len(errs) > 0 THEN Fail(errs)
          ELSE IF Len(raw.l) < min_length
          THEN Fail(<<Err(loc, "too_short",
                          <<"List should have at least ", ToString(min_length),
                            " items after validation, not ", ToString(Len(raw.l))>>,
                          raw)>>)
          ELSE Ok(List([i \in 1..Len(raw.l) |-> rs[i].val]))

\* one declared field of a model read from the mapping d
field(d, key, loc, required, default, Schema(_, _)) ==
  LET raw == Get(d, key)
      l == Append(loc, LocKey(key))
  IN IF raw.t = "absent"
     THEN (IF required
           THEN Fail(<<Err(l, "missing", <<"Field required">>, d)>>)
           ELSE Ok(default))
     ELSE Schema(raw, l)

\* a model that reports the errors of its fields last field first
model_fields_last_first(keys, rs) ==
  LET errs == Flatten([i \in 1..Len(rs) |-> rs[Len(rs) + 1 - i].errs])
  IN IF Len(errs) > 0 THEN Fail(errs)
     ELSE Ok(Dict([i \in 1..Len(keys) |-> E(keys[i], rs[i].val)]))

\* a model that stops at the first error
model_fields_first_error(keys, rs) ==
  LET errs == Flatten([i \in 1..Len(rs) |-> rs[i].errs])
  IN IF Len(errs) > 0 THEN Fail(<<errs[1]>>)
     ELSE Ok(Dict([i \in 1..Len(keys) |-> E(keys[i], rs[i].val)]))

\* the fields of a model, validated in declaration order: the errors of all
\* of them, or the model's value when there is none
model_fields(keys, rs) ==
  LET errs == Flatten([i \in 1..Len(rs) |-> rs[i].errs])
  IN IF Len(errs) > 0 THEN Fail(errs)
     ELSE Ok(Dict([i \in 1..Len(keys) |-> E(keys[i], rs[i].val)]))

model_type(loc, cls, raw) ==
  Fail(<<Err(loc, "model_type",
             <<"Input should be a valid dictionary or instance of ", cls>>, raw)>>)

-----------------------------------------------------------------------------
(* models/resume_models.py *)

EmojiMessage == <<"Content cannot contain emojis, icons, or graphics">>

\* HeaderModel.validate_no_emojis_icons
Header_validate_no_emojis_icons(v) ==
  IF emoji_search(v.s) THEN EmojiMessage ELSE <<>>

HeaderModel(raw, loc) ==
  IF raw.t # "dict" THEN model_type(loc, "HeaderModel", raw)
  ELSE model_fields(<<"name", "title", "email", "phone", "location">>,
    << field(raw, "name", loc, TRUE, Null, LAMBDA x, l :
         after(str_schema(x, l, [min_length |-> 1, max_length |-> 100]), l,
               Header_validate_no_emojis_icons)),
       field(raw, "title", loc, TRUE, Null, LAMBDA x, l :
         after(str_schema(x, l, [min_length |-> 1, max_length |-> 150]), l,
               Header_validate_no_emojis_icons)),
       field(raw, "email", loc, TRUE, Null, LAMBDA x, l :
         str_schema(x, l, [pattern |-> "email"])),
       field(raw, "phone", loc, TRUE, Null, LAMBDA x, l :
         str_schema(x, l, [pattern |-> "phone"])),
       field(raw, "location", loc, TRUE, Null, LAMBDA x, l :
         after(str_schema(x, l, [min_length |-> 1, max_length |-> 100]), l,
               Header_validate_no_emojis_icons)) >>)

\* the interval taken without its lower end
word_count_error_open(word_count) ==
  IF ~(80 < word_count /\ word_count <= 120)
  THEN <<"Summary must be 80-120 words, got ", ToString(word_count)>>
  ELSE <<>>

\* the check validate_word_count makes of word_count = len(v.split())
word_count_error(word_count) ==
  IF ~(80 <= word_count /\ word_count <= 120)
  THEN <<"Summary must be 80-120 words, got ", ToString(word_count)>>
  ELSE <<>>

\* ExpertiseModel.validate_word_count
validate_word_count(v) == word_count_error(Len(split(v.s)))

\* ExpertiseModel.validate_no_emojis_icons
Expertise_validate_no_emojis_icons(v) ==
  IF emoji_search(v.s) THEN EmojiMessage ELSE <<>>

\* an ExpertiseModel whose emoji validator is declared before the word count
ExpertiseModel_emoji_first(raw, loc) ==
  IF raw.t # "dict" THEN model_type(loc, "ExpertiseModel", raw)
  ELSE model_fields(<<"summary">>,
    << field(raw, "summary", loc, TRUE, Null, LAMBDA x, l :
         after(after(str_schema(x, l, [min_length |-> 1]), l,
                     Expertise_validate_no_emojis_icons),
               l, validate_word_count)) >>)

ExpertiseModel(raw, loc) ==
  IF raw.t # "dict" THEN model_type(loc, "ExpertiseModel", raw)
  ELSE model_fields(<<"summary">>,
    << field(raw, "summary", loc, TRUE, Null, LAMBDA x, l :
         after(after(str_schema(x, l, [min_length |-> 1]), l, validate_word_count),
               l, Expertise_validate_no_emojis_icons)) >>)

\* a comma rule that wants a token on both sides of a comma
validate_two_skills(v) ==
  IF Len(SelectSeq(split_comma(v.s), LAMBDA t : strip(t) # <<>>)) < 2
  THEN <<"Skills must be in comma-separated format">>
  ELSE IF \E i \in 1..Len(split_comma(v.s)) : emoji_search(split_comma(v.s)[i])
  THEN <<"Skills cannot contain emojis, icons, or graphics">>
  ELSE <<>>

\* SkillsModel.validate_comma_separated_format
validate_comma_separated_format(v) ==
  IF ~(\E i \in 1..Len(strip(v.s)) : strip(v.s)[i] = Ch.comma)
  THEN <<"Skills must be in comma-separated format">>
  ELSE LET skills_list == [i \in 1..Len(split_comma(v.s)) |-> strip(split_comma(v.s)[i])]
       IN IF \E i \in 1..Len(skills_list) : emoji_search(skills_list[i])
          THEN <<"Skills cannot contain emojis, icons, or graphics">>
          ELSE <<>>

SkillsModel(raw, loc) ==
  IF raw.t # "dict" THEN model_type(loc, "SkillsModel", raw)
  ELSE model_fields(<<"skills">>,
    << field(raw, "skills", loc, TRUE, Null, LAMBDA x, l :
         after(str_schema(x, l, [min_length |-> 1]), l,
               validate_comma_separated_format)) >>)

\* the loop of ExperienceModel.validate_responsibilities from element i on:
\* the first element that has an emoji or is blank raises
RECURSIVE responsibilities_loop(_, _)
responsibilities_loop(v, i) ==
  IF i > Len(v) THEN <<>>
  ELSE IF emoji_search(v[i].s)
  THEN <<"Responsibilities cannot contain emojis, icons, or graphics">>
  ELSE IF strip(v[i].s) = <<>>
  THEN <<"Responsibilities cannot be empty">>
  ELSE responsibilities_loop(v, i + 1)

\* ExperienceModel.validate_responsibilities
validate_responsibilities(v) ==
  IF Len(v.l) < 3 THEN <<"Minimum ", "3", " responsibilities required">>
  ELSE responsibilities_loop(v.l, 1)

\* ExperienceModel.validate_no_emojis_icons
Experience_validate_no_emojis_icons(v) ==
  IF emoji_search(v.s) THEN EmojiMessage ELSE <<>>

ExperienceModel(raw, loc) ==
  IF raw.t # "dict" THEN model_type(loc, "ExperienceModel", raw)
  ELSE model_fields(
    <<"company", "position", "start_date", "end_date", "responsibilities">>,
    << field(raw, "company", loc, TRUE, Null, LAMBDA x, l :
         after(str_schema(x, l, [min_length |-> 1, max_length |-> 100]), l,
               Experience_validate_no_emojis_icons)),
       field(raw, "position", loc, TRUE, Null, LAMBDA x, l :
         after(str_schema(x, l, [min_length |-> 1, max_length |-> 100]), l,
               Experience_validate_no_emojis_icons)),
       field(raw, "start_date", loc, TRUE, Null, LAMBDA x, l :
         str_schema(x, l, [pattern |-> "date"])),
       field(raw, "end_date", loc, FALSE, Null, LAMBDA x, l :
         optional_str_schema(x, l, [pattern |-> "end_date"])),
       field(raw, "responsibilities", loc, TRUE, Null, LAMBDA x, l :
         after(list_schema(x, l, 3, LAMBDA y, m : str_schema(y, m, Unconstrained)), l,
               validate_responsibilities)) >>)

\* ProjectModel.validate_no_emojis_icons
Project_validate_no_emojis_icons(v) ==
  IF emoji_search(v.s) THEN EmojiMessage ELSE <<>>

ProjectModel(raw, loc) ==
  IF raw.t # "dict" THEN model_type(loc, "ProjectModel", raw)
  ELSE model_fields(
    <<"name", "description", "technologies", "start_date", "end_date">>,
    << field(raw, "name", loc, TRUE, Null, LAMBDA x, l :
         after(str_schema(x, l, [min_length |-> 1, max_length |-> 100]), l,
               Project_validate_no_emojis_icons)),
       field(raw, "description", loc, TRUE, Null, LAMBDA x, l :
         after(str_schema(x, l, [min_length |-> 1, max_length |-> 500]), l,
               Project_validate_no_emojis_icons)),
       field(raw, "technologies", loc, TRUE, Null, LAMBDA x, l :
         after(str_schema(x, l, [min_length |-> 1]), l,
               Project_validate_no_emojis_icons)),
       field(raw, "start_date", loc, TRUE, Null, LAMBDA x, l :
         str_schema(x, l, [pattern |-> "date"])),
       field(raw, "end_date", loc, FALSE, Null, LAMBDA x, l :
         optional_str_schema(x, l, [pattern |-> "end_date"])) >>)

\* EducationModel.validate_no_emojis_icons
Education_validate_no_emojis_icons(v) ==
  IF v.t = "null" THEN <<>>
  ELSE IF emoji_search(v.s) THEN EmojiMessage ELSE <<>>

EducationModel(raw, loc) ==
  IF raw.t # "dict" THEN model_type(loc, "EducationModel", raw)
  ELSE model_fields(
    <<"institution", "degree", "field_of_study", "graduation_date", "gpa">>,
    << field(raw, "institution", loc, TRUE, Null, LAMBDA x, l :
         after(str_schema(x, l, [min_length |-> 1, max_length |-> 100]), l,
               Education_validate_no_emojis_icons)),
       field(raw, "degree", loc, TRUE, Null, LAMBDA x, l :
         after(str_schema(x, l, [min_length |-> 1, max_length |-> 100]), l,
               Education_validate_no_emojis_icons)),
       field(raw, "field_of_study", loc, TRUE, Null, LAMBDA x, l :
         after(str_schema(x, l, [min_length |-> 1, max_length |-> 100]), l,
               Education_validate_no_emojis_icons)),
       field(raw, "graduation_date", loc, TRUE, Null, LAMBDA x, l :
         str_schema(x, l, [pattern |-> "date"])),
       field(raw, "gpa", loc, FALSE, Null, LAMBDA x, l :
         after(optional_str_schema(x, l, [max_length |-> 10]), l,
               Education_validate_no_emojis_icons)) >>)

\* AwardModel.validate_no_emojis_icons
Award_validate_no_emojis_icons(v) ==
  IF v.t = "null" THEN <<>>
  ELSE IF emoji_search(v.s) THEN EmojiMessage ELSE <<>>

AwardModel(raw, loc) ==
  IF raw.t # "dict" THEN model_type(loc, "AwardModel", raw)
  ELSE model_fields(<<"title", "organization", "date", "description">>,
    << field(raw, "title", loc, TRUE, Null, LAMBDA x, l :
         after(str_schema(x, l, [min_length |-> 1, max_length |-> 100]), l,
               Award_validate_no_emojis_icons)),
       field(raw, "organization", loc, TRUE, Null, LAMBDA x, l :
         after(str_schema(x, l, [min_length |-> 1, max_length |-> 100]), l,
               Award_validate_no_emojis_icons)),
       field(raw, "date", loc, TRUE, Null, LAMBDA x, l :
         str_schema(x, l, [pattern |-> "date"])),
       field(raw, "description", loc, FALSE, Null, LAMBDA x, l :
         after(optional_str_schema(x, l, [max_length |-> 200]), l,
               Award_validate_no_emojis_icons)) >>)

\* a validator that lets an empty section pass
sections_may_be_empty(v, field_name) == <<>>

\* ResumeModel.validate_required_sections_not_empty
validate_required_sections_not_empty(v, field_name) ==
  IF Len(v.l) = 0 THEN <<field_name, " section cannot be empty">> ELSE <<>>

\* ResumeModel.validate_experience_order
validate_experience_order(v) ==
  IF Len(v.l) = 0 THEN <<"Experience section is required">> ELSE <<>>

\* Optional[List[AwardModel]]
awards_schema(raw, loc) ==
  IF raw.t = "null" THEN Ok(Null) ELSE list_schema(raw, loc, 0, AwardModel)

ResumeFields ==
  <<"header", "expertise", "skills", "experience", "projects", "education", "awards">>

\* extra="ignore": undeclared keys are dropped without an error
extra_ignored(raw, loc, keys) == <<>>

\* extra="forbid": one error for every key of the mapping that is no field
extra_forbidden(raw, loc, keys) ==
  LET declared == {keys[i] : i \in 1..Len(keys)}
      RECURSIVE errs(_)
      errs(i) ==
        IF i > Len(raw.d) THEN <<>>
        ELSE (IF raw.d[i].key \in declared THEN <<>>
              ELSE <<Err(Append(loc, LocKey(raw.d[i].key)), "extra_forbidden",
                         <<"Extra inputs are not permitted">>, raw.d[i].val)>>)
             \o errs(i + 1)
  IN errs(1)

\* the result of the declared fields r with the errors of the undeclared keys
with_extra(r, extra) ==
  IF Len(r.errs) + Len(extra) > 0 THEN Fail(r.errs \o extra) ELSE r

\* ResumeModel(**resume_data): the declared fields in order, then the
\* undeclared keys of the top-level mapping
ResumeModel(raw) ==
  with_extra(
    model_fields(ResumeFields,
      << field(raw, "header", <<>>, TRUE, Null, HeaderModel),
         field(raw, "expertise", <<>>, TRUE, Null, ExpertiseModel),
         field(raw, "skills", <<>>, TRUE, Null, SkillsModel),
         field(raw, "experience", <<>>, TRUE, Null, LAMBDA x, l :
           after(after(list_schema(x, l, 0, ExperienceModel), l,
                       LAMBDA v : validate_required_sections_not_empty(v, "experience")),
                 l, validate_experience_order)),
         field(raw, "projects", <<>>, TRUE, Null, LAMBDA x, l :
           after(list_schema(x, l, 0, ProjectModel), l,
                 LAMBDA v : validate_required_sections_not_empty(v, "projects"))),
         field(raw, "education", <<>>, TRUE, Null, LAMBDA x, l :
           after(list_schema(x, l, 0, EducationModel), l,
                 LAMBDA v : validate_required_sections_not_empty(v, "education"))),
         field(raw, "awards", <<>>, FALSE, List(<<>>), awards_schema) >>),
    extra_forbidden(raw, <<>>, ResumeFields))

-----------------------------------------------------------------------------
(* rendering/resume_renderer.py *)

\* the files of the template directory: which of the two templates load is
\* a fact of the deployment, not of the request
Environments ==
  [resume_html : BOOLEAN, resume_partial_html : BOOLEAN]

\* ResumeRenderer.__init__: RuntimeError when resume.html does not load
renderer_init_ok(env) == env.resume_html

\* ResumeRenderer.render_partial_html: the partial template over the seven
\* sections with defaults, or the fallback page on any exception
render_partial_html(resume, env) ==
  IF env.resume_partial_html
  THEN [kind |-> "partial",
        resume |-> [i \in 1..Len(ResumeFields) |->
                      E(ResumeFields[i],
                        IF ResumeFields[i] \in Keys(resume)
                        THEN Get(resume, ResumeFields[i])
                        ELSE IF ResumeFields[i] \in {"header", "expertise", "skills"}
                             THEN Dict(<<>>) ELSE List(<<>>))]]
  ELSE [kind |-> "fallback", resume |-> resume]

\* the methods the class ResumeRenderer defines
RendererMethods ==
  {"__init__", "render_partial_html", "generate_docx",
   "_apply_company_template_styles", "_add_header_section",
   "_add_section_header", "_add_expertise_section", "_add_skills_section",
   "_add_experience_section", "_add_projects_section",
   "_add_education_section", "_add_awards_section"}

\* a renderer that adds the awards section whatever the awards are
generate_docx_always_awards(resume) ==
  LET fixed == <<"header", "expertise", "skills", "experience", "projects",
                 "education", "awards">>
  IN [i \in 1..Len(fixed) |-> [section |-> fixed[i], data |-> Get(resume, fixed[i])]]

\* ResumeRenderer.generate_docx: the sections added to the document, in order
generate_docx(resume) ==
  LET awards == Get(resume, "awards")
      fixed == <<"header", "expertise", "skills", "experience", "projects",
                 "education">>
      body == [i \in 1..Len(fixed) |-> [section |-> fixed[i], data |-> Get(resume, fixed[i])]]
  IN IF awards.t = "list" /\ Len(awards.l) > 0
     THEN Append(body, [section |-> "awards", data |-> awards])
     ELSE body

-----------------------------------------------------------------------------
(* api/endpoints.py *)

\* ".".join(str(loc) for loc in error["loc"])
RECURSIVE join_loc(_)
join_loc(loc) ==
  IF loc = <<>> THEN ""
  ELSE LET x == Head(loc)
           h == IF x.t = "idx" THEN ToString(x.i) ELSE x.k
       IN IF Len(loc) = 1 THEN h ELSE h \o "." \o join_loc(Tail(loc))

\* the words validate_resume looks for that occur in a message fragment
\* (a case-insensitive substring test on the text of the message)
KeywordsIn(fragment) ==
  CASE fragment = "Summary must be 80-120 words, got " -> {"word"}
    [] fragment = "Content cannot contain emojis, icons, or graphics" -> {"emoji", "icon"}
    [] fragment = "Skills cannot contain emojis, icons, or graphics" -> {"emoji", "icon"}
    [] fragment = "Skills must be in comma-separated format" -> {"comma"}
    [] fragment = "Responsibilities cannot contain emojis, icons, or graphics"
         -> {"responsibilities", "emoji", "icon"}
    [] fragment = "Responsibilities cannot be empty" -> {"responsibilities"}
    [] fragment = " responsibilities required" -> {"responsibilities"}
    [] OTHER -> {}

mentions(msg, word) == \E i \in 1..Len(msg) : word \in KeywordsIn(msg[i])

\* the spec_reference validate_resume attaches, "" when it attaches none
spec_reference(msg) ==
  IF mentions(msg, "word") THEN "Requirements 2.3"
  ELSE IF mentions(msg, "date") \/ mentions(msg, "MMM YYYY") THEN "Requirements 2.2"
  ELSE IF mentions(msg, "responsibilities") THEN "Requirements 2.4"
  ELSE IF mentions(msg, "emoji") \/ mentions(msg, "icon") THEN "Requirements 2.5"
  ELSE IF mentions(msg, "comma") THEN "Requirements 6.2"
  ELSE ""

NoResponse == [status |-> 0]

\* what a handler did: the response it sent and the calls it made, in order
Handled(response, made) == [resp |-> response, calls |-> made]

\* validate_resume answering a rejected document with the payload as data
validate_result_keeps_data(validated_resume) ==
  [status |-> 200, valid |-> validated_resume.ok,
   data |-> IF validated_resume.ok THEN validated_resume.val ELSE Dict(<<>>),
   errors |-> IF validated_resume.ok THEN Null
              ELSE List([i \in 1..Len(validated_resume.errs) |->
                           [field |-> join_loc(validated_resume.errs[i].loc),
                            message |-> validated_resume.errs[i].msg,
                            type |-> validated_resume.errs[i].type,
                            input |-> validated_resume.errs[i].input,
                            spec_reference |->
                              spec_reference(validated_resume.errs[i].msg)]])]

\* validate_resume once ResumeModel(**resume_data) has returned or raised
validate_result(validated_resume) ==
  IF validated_resume.ok
  THEN [status |-> 200, valid |-> TRUE, data |-> validated_resume.val,
        errors |-> Null]
  ELSE [status |-> 200, valid |-> FALSE,
        errors |-> List([i \in 1..Len(validated_resume.errs) |->
                           [field |-> join_loc(validated_resume.errs[i].loc),
                            message |-> validated_resume.errs[i].msg,
                            type |-> validated_resume.errs[i].type,
                            input |-> validated_resume.errs[i].input,
                            spec_reference |->
                              spec_reference(validated_resume.errs[i].msg)]]),
        data |-> Null]

\* POST /validate
validate_resume(data) ==
  Handled(validate_result(ResumeModel(data)), <<"ResumeModel">>)

\* the error list of generate_preview
preview_errors(errs) ==
  List([i \in 1..Len(errs) |->
          [field |-> join_loc(errs[i].loc), message |-> errs[i].msg,
           type |-> errs[i].type]])

\* generate_preview without the inner try: a renderer that cannot be
\* constructed surfaces as the handler's HTTP error
preview_result_unguarded(data, validated_resume, env) ==
  IF ~renderer_init_ok(env)
  THEN Handled([status |-> 500, detail |-> "Error generating preview: RuntimeError"],
               <<"ResumeModel", "ResumeRenderer">>)
  ELSE IF validated_resume.ok
  THEN Handled([status |-> 500, detail |-> "Error generating preview: AttributeError"],
               <<"ResumeModel", "ResumeRenderer", "render_html">>)
  ELSE Handled([status |-> 200, valid |-> FALSE,
                errors |-> preview_errors(validated_resume.errs),
                html |-> render_partial_html(data, env)],
               <<"ResumeModel", "ResumeRenderer", "render_partial_html">>)

\* generate_preview once ResumeModel(**resume_data) has returned or raised
preview_result(data, validated_resume, env) ==
  IF validated_resume.ok
  THEN IF ~renderer_init_ok(env)
       THEN Handled([status |-> 500, detail |-> "Error generating preview: RuntimeError"],
                    <<"ResumeModel", "ResumeRenderer">>)
       ELSE IF "render_html" \notin RendererMethods
       THEN Handled([status |-> 500, detail |-> "Error generating preview: AttributeError"],
                    <<"ResumeModel", "ResumeRenderer", "render_html">>)
       ELSE Handled([status |-> 200, valid |-> TRUE, errors |-> Null,
                     html |-> [kind |-> "full", resume |-> validated_resume.val]],
                    <<"ResumeModel", "ResumeRenderer", "render_html">>)
  ELSE IF ~renderer_init_ok(env)
       THEN Handled([status |-> 200, valid |-> FALSE,
                     errors |-> preview_errors(validated_resume.errs),
                     html |-> [kind |-> "error", resume |-> Null]],
                    <<"ResumeModel", "ResumeRenderer">>)
       ELSE Handled([status |-> 200, valid |-> FALSE,
                     errors |-> preview_errors(validated_resume.errs),
                     html |-> render_partial_html(data, env)],
                    <<"ResumeModel", "ResumeRenderer", "render_partial_html">>)

\* POST /preview
generate_preview(data, env) == preview_result(data, ResumeModel(data), env)

\* export_docx generating the document without looking at the errors
export_result_unblocked(validated_resume, env) ==
  IF ~renderer_init_ok(env)
  THEN Handled([status |-> 500,
                detail |-> "Error generating DOCX export: RuntimeError"],
               <<"ResumeModel", "ResumeRenderer">>)
  ELSE Handled([status |-> 200, filename |-> "resume.docx",
                file |-> generate_docx(validated_resume.val)],
               <<"ResumeModel", "ResumeRenderer", "generate_docx", "save">>)

\* export_docx once ResumeModel(**resume_data) has returned or raised
export_result(validated_resume, env) ==
  IF validated_resume.ok
  THEN IF ~renderer_init_ok(env)
       THEN Handled([status |-> 500,
                     detail |-> "Error generating DOCX export: RuntimeError"],
                    <<"ResumeModel", "ResumeRenderer">>)
       ELSE Handled([status |-> 200, filename |-> "resume.docx",
                     file |-> generate_docx(validated_resume.val)],
                    <<"ResumeModel", "ResumeRenderer", "generate_docx", "save">>)
  ELSE Handled([status |-> 422,
                detail |-> [message |-> "Validation failed - export blocked",
                            errors |-> [i \in 1..Len(validated_resume.errs) |->
                                          [field |-> join_loc(validated_resume.errs[i].loc),
                                           message |-> validated_resume.errs[i].msg]]]],
               <<"ResumeModel">>)

\* POST /export
export_docx(data, env) == export_result(ResumeModel(data), env)

-----------------------------------------------------------------------------
(* The requests a client sends: a valid document and edits of it *)

\* how many fields of the valid document a client changes before a request
MaxEdits == 2

K(k) == LocKey(k)
I(i) == LocIdx(i)

\* n one-letter words separated by sep
Words(n, sep) == IF n = 0 THEN <<>> ELSE <<Ch.w>> \o Rep(sep \o <<Ch.w>>, n - 1)

TxtJan == <<Ch.J, Ch.a, Ch.n>>
TxtLatin == <<Ch.r, Ch.eacute, Ch.s, Ch.u>>
TxtGrin == <<Ch.J, Ch.a, Ch.n, Ch.sp, Ch.grin>>
TxtDate == <<Ch.J, Ch.A, Ch.N, Ch.sp, Ch.d2, Ch.d0, Ch.d2, Ch.d0>>
TxtEmail == <<Ch.a, Ch.at, Ch.b, Ch.dot, Ch.c>>
TxtPhone == <<Ch.plus, Ch.d1, Ch.sp, Ch.lpar, Ch.d5, Ch.d5, Ch.rpar, Ch.sp, Ch.d2, Ch.minus, Ch.d0>>
TxtSkills == <<Ch.a, Ch.comma, Ch.sp, Ch.b>>

ValidExperience ==
  Dict(<<E("company", Str(TxtJan)), E("position", Str(TxtLatin)),
         E("start_date", Str(TxtDate)), E("end_date", Str(StrPresent)),
         E("responsibilities",
           List(<<Str(TxtJan), Str(TxtLatin), Str(TxtSkills)>>))>>)

ValidProject ==
  Dict(<<E("name", Str(TxtJan)), E("description", Str(TxtLatin)),
         E("technologies", Str(TxtSkills)), E("start_date", Str(TxtDate)),
         E("end_date", Str(TxtDate))>>)

ValidEducation ==
  Dict(<<E("institution", Str(TxtJan)), E("degree", Str(TxtLatin)),
         E("field_of_study", Str(TxtJan)), E("graduation_date", Str(TxtDate)),
         E("gpa", Str(<<Ch.d2, Ch.dot, Ch.d5>>))>>)

ValidAward ==
  Dict(<<E("title", Str(TxtJan)), E("organization", Str(TxtLatin)),
         E("date", Str(TxtDate)), E("description", Str(TxtJan))>>)

ValidHeader ==
  Dict(<<E("name", Str(TxtJan)), E("title", Str(TxtLatin)),
         E("email", Str(TxtEmail)), E("phone", Str(TxtPhone)),
         E("location", Str(TxtJan))>>)

\* a document every rule accepts
ValidResume ==
  Dict(<<E("header", ValidHeader),
         E("expertise", Dict(<<E("summary", Str(Words(80, <<Ch.sp>>)))>>)),
         E("skills", Dict(<<E("skills", Str(TxtSkills))>>)),
         E("experience", List(<<ValidExperience, ValidExperience>>)),
         E("projects", List(<<ValidProject>>)),
         E("education", List(<<ValidEducation>>)),
         E("awards", List(<<ValidAward>>))>>)

\* whether path addresses a key or an element of the value d
RECURSIVE Applicable(_, _)
Applicable(d, path) ==
  LET x == Head(path)
  IN IF x.t = "key"
     THEN /\ d.t = "dict"
          /\ Len(path) > 1 => /\ x.k \in Keys(d)
                              /\ Applicable(Get(d, x.k), Tail(path))
     ELSE /\ d.t = "list"
          /\ x.i + 1 <= Len(d.l)
          /\ Len(path) > 1 => Applicable(d.l[x.i + 1], Tail(path))

\* the entries with the entry of key removed
Without(entries, key) == SelectSeq(entries, LAMBDA e : e.key # key)

\* the value d with val at path: a key is overwritten in place or added
\* last, an element is replaced; val = Absent removes the key
RECURSIVE SetAt(_, _, _)
SetAt(d, path, val) ==
  LET x == Head(path)
      new == IF Len(path) > 1
             THEN SetAt(IF x.t = "key" THEN Get(d, x.k) ELSE d.l[x.i + 1],
                        Tail(path), val)
             ELSE val
  IN IF x.t = "idx" THEN List([d.l EXCEPT ![x.i + 1] = new])
     ELSE IF new.t = "absent" THEN Dict(Without(d.d, x.k))
     ELSE IF x.k \in Keys(d)
     THEN Dict([i \in 1..Len(d.d) |->
                  IF d.d[i].key = x.k THEN E(x.k, new) ELSE d.d[i]])
     ELSE Dict(Append(d.d, E(x.k, new)))

Change(path, val) == [path |-> path, val |-> val]

\* the changes a client makes to a document
Changes ==
  { Change(<<K("header"), K("name")>>, Str(TxtGrin)),
    Change(<<K("header"), K("name")>>, Absent),
    Change(<<K("header"), K("title")>>, Num(7)),
    Change(<<K("header"), K("nickname")>>, Str(TxtJan)),
    Change(<<K("header")>>, Str(TxtJan)),
    Change(<<K("expertise"), K("summary")>>, Str(Words(121, <<Ch.sp>>))),
    Change(<<K("expertise"), K("notes")>>, Str(TxtJan)),
    Change(<<K("skills"), K("level")>>, Num(3)),
    Change(<<K("experience"), I(0), K("salary")>>, Num(1)),
    Change(<<K("experience"), I(0), K("end_date")>>, Absent),
    Change(<<K("experience"), I(1), K("company")>>, Str(TxtGrin)),
    Change(<<K("experience"), I(1), K("start_date")>>, Str(StrPresent)),
    Change(<<K("experience")>>, List(<<>>)),
    Change(<<K("projects"), I(0), K("url")>>, Str(TxtJan)),
    Change(<<K("projects")>>, Absent),
    Change(<<K("education"), I(0), K("gpa")>>, Str(Rep(<<Ch.d5>>, 11))),
    Change(<<K("education"), I(0), K("honours")>>, Str(TxtJan)),
    Change(<<K("awards"), I(0), K("date")>>, Str(TxtJan)),
    Change(<<K("awards"), I(0), K("url")>>, Str(TxtJan)),
    Change(<<K("awards")>>, Absent),
    Change(<<K("awards")>>, Null),
    Change(<<K("extra_field")>>, Str(TxtJan)),
    Change(<<K("name")>>, Str(TxtJan)) }

\* a document with seven violations, one per field: the email, the summary,
\* the skills, a start date, a responsibilities list and two empty sections
InvalidResume ==
  Dict(<<E("header",
           Dict(<<E("name", Str(TxtJan)), E("title", Str(TxtLatin)),
                  E("email", Str(TxtJan)), E("phone", Str(TxtPhone)),
                  E("location", Str(TxtJan))>>)),
         E("expertise", Dict(<<E("summary", Str(Words(2, <<Ch.sp>>)))>>)),
         E("skills", Dict(<<E("skills", Str(TxtJan))>>)),
         E("experience",
           List(<<Dict(<<E("company", Str(TxtJan)), E("position", Str(TxtLatin)),
                         E("start_date", Str(<<Ch.J, Ch.a, Ch.n, Ch.sp, Ch.d2, Ch.d0,
                                               Ch.d2, Ch.d0>>)),
                         E("end_date", Str(StrPresent)),
                         E("responsibilities", List(<<Str(TxtJan)>>))>>),
                  ValidExperience>>)),
         E("projects", List(<<>>)),
         E("education", List(<<>>))>>)

-----------------------------------------------------------------------------
(* The server: one request at a time, each handled from the payload alone *)

Init ==
  /\ resume_data \in {ValidResume, InvalidResume}
  /\ edits = 0
  /\ pc = "idle"
  /\ flow = "none"
  /\ resp = NoResponse
  /\ calls = <<>>
  /\ inflight = <<>>

\* the client changes one field of the document it is about to send
Edit ==
  /\ pc = "idle"
  /\ edits < MaxEdits
  /\ \E ch \in Changes :
       /\ Applicable(resume_data, ch.path)
       /\ resume_data' = SetAt(resume_data, ch.path, ch.val)
       /\ resume_data' # resume_data
  /\ edits' = edits + 1
  /\ UNCHANGED <<pc, flow, resp, calls, inflight>>

Validate ==
  /\ pc = "idle"
  /\ \E out \in {validate_resume(resume_data)} :
       resp' = out.resp /\ calls' = out.calls
  /\ flow' = "validate"
  /\ pc' = "responded"
  /\ UNCHANGED <<resume_data, edits, inflight>>

Preview ==
  /\ pc = "idle"
  /\ \E env \in Environments :
       \E out \in {generate_preview(resume_data, env)} :
         resp' = out.resp /\ calls' = out.calls
  /\ flow' = "preview"
  /\ pc' = "responded"
  /\ UNCHANGED <<resume_data, edits, inflight>>

Export ==
  /\ pc = "idle"
  /\ \E env \in Environments :
       \E out \in {export_docx(resume_data, env)} :
         resp' = out.resp /\ calls' = out.calls
  /\ flow' = "export"
  /\ pc' = "responded"
  /\ UNCHANGED <<resume_data, edits, inflight>>

\* the response is delivered; the server keeps nothing of the request
Deliver ==
  /\ pc = "responded"
  /\ pc' = "idle"
  /\ flow' = "none"
  /\ resp' = NoResponse
  /\ calls' = <<>>
  /\ UNCHANGED <<resume_data, edits, inflight>>

Serve == Validate \/ Preview \/ Export \/ Deliver

Next == Edit \/ Serve

Spec == Init /\ [][Next]_vars

-----------------------------------------------------------------------------
(* The rules of a document, field by field *)

\* the fields each model class declares
FieldsOf ==
  [HeaderModel |-> {"name", "title", "email", "phone", "location"},
   ExpertiseModel |-> {"summary"},
   SkillsModel |-> {"skills"},
   ExperienceModel |-> {"company", "position", "start_date", "end_date",
                        "responsibilities"},
   ProjectModel |-> {"name", "description", "technologies", "start_date",
                     "end_date"},
   EducationModel |-> {"institution", "degree", "field_of_study",
                       "graduation_date", "gpa"},
   AwardModel |-> {"title", "organization", "date", "description"},
   ResumeModel |-> {ResumeFields[i] : i \in 1..Len(ResumeFields)}]

\* the dotted paths of the errors of a validation result
ErrPaths(r) == {join_loc(r.errs[i].loc) : i \in 1..Len(r.errs)}

\* the errors of the field key of the mapping rec taken alone: every other
\* field of the model has the value the accepted mapping valid gives it
FieldAlone(M(_, _), valid, rec, loc, key) ==
  ErrPaths(M(SetAt(valid, <<K(key)>>, Get(rec, key)), loc))

\* the errors of a section taken alone: the other sections are those of the
\* accepted document
SectionAlone(section, raw) ==
  ErrPaths(ResumeModel(SetAt(ValidResume, <<K(section)>>, raw)))

\* the violating fields of one mapping of class cls
ViolationsOfModel(M(_, _), cls, valid, rec, loc) ==
  IF rec.t # "dict" THEN ErrPaths(M(rec, loc))
  ELSE UNION {FieldAlone(M, valid, rec, loc, key) : key \in FieldsOf[cls]}

\* the violating fields of a section that holds one mapping
ViolationsOfSection(M(_, _), cls, valid, doc, section) ==
  LET raw == Get(doc, section)
  IN IF raw.t # "dict" THEN SectionAlone(section, raw)
     ELSE ViolationsOfModel(M, cls, valid, raw, <<K(section)>>)

\* the violating fields of a section that holds a list of mappings
ViolationsOfList(M(_, _), cls, valid, doc, section) ==
  LET raw == Get(doc, section)
  IN IF raw.t # "list" \/ Len(raw.l) = 0 THEN SectionAlone(section, raw)
     ELSE UNION {ViolationsOfModel(M, cls, valid, raw.l[i],
                                   <<K(section), I(i - 1)>>) : i \in 1..Len(raw.l)}

\* the top-level keys of a document that are no field of ResumeModel
UndeclaredKeys(doc) == Keys(doc) \ FieldsOf.ResumeModel

\* the declared fields of a document that violate a rule, each by its path
DeclaredViolations(doc) ==
  ViolationsOfSection(HeaderModel, "HeaderModel", ValidHeader, doc, "header")
    \cup ViolationsOfSection(ExpertiseModel, "ExpertiseModel",
                             Get(ValidResume, "expertise"), doc, "expertise")
    \cup ViolationsOfSection(SkillsModel, "SkillsModel",
                             Get(ValidResume, "skills"), doc, "skills")
    \cup ViolationsOfList(ExperienceModel, "ExperienceModel", ValidExperience,
                          doc, "experience")
    \cup ViolationsOfList(ProjectModel, "ProjectModel", ValidProject, doc,
                          "projects")
    \cup ViolationsOfList(EducationModel, "EducationModel", ValidEducation,
                          doc, "education")
    \cup ViolationsOfList(AwardModel, "AwardModel", ValidAward, doc, "awards")

\* every place of a document where a rule is violated
Violations(doc) == DeclaredViolations(doc) \cup UndeclaredKeys(doc)

\* the keys of the nested mappings of a document that their class does not
\* declare, each by its path
UndeclaredIn(cls, rec, prefix) ==
  IF rec.t # "dict" THEN {}
  ELSE {prefix \o "." \o key : key \in Keys(rec) \ FieldsOf[cls]}

UndeclaredInList(cls, raw, section) ==
  IF raw.t # "list" THEN {}
  ELSE UNION {UndeclaredIn(cls, raw.l[i], section \o "." \o ToString(i - 1)) :
                i \in 1..Len(raw.l)}

NestedUndeclaredKeys(doc) ==
  UndeclaredIn("HeaderModel", Get(doc, "header"), "header")
    \cup UndeclaredIn("ExpertiseModel", Get(doc, "expertise"), "expertise")
    \cup UndeclaredIn("SkillsModel", Get(doc, "skills"), "skills")
    \cup UndeclaredInList("ExperienceModel", Get(doc, "experience"), "experience")
    \cup UndeclaredInList("ProjectModel", Get(doc, "projects"), "projects")
    \cup UndeclaredInList("EducationModel", Get(doc, "education"), "education")
    \cup UndeclaredInList("AwardModel", Get(doc, "awards"), "awards")

\* the fields named by the error list of a response
ErrorFields(errors) == {errors[i].field : i \in 1..Len(errors)}

-----------------------------------------------------------------------------
(* Properties of the three endpoints *)

\* C1: POST /validate answers every mapping with HTTP 200 and one of two
\* shapes: valid = true with errors null and data the validated document
\* (all seven sections, no rule violated), or valid = false with data null
\* and a non-empty list of errors.
C1_ValidateResponseShape ==
  flow = "validate" =>
    /\ resp.status = 200
    /\ IF resp.valid
       THEN /\ resp.errors.t = "null"
            /\ resp.data.t = "dict"
            /\ Keys(resp.data) = FieldsOf.ResumeModel
            /\ Violations(resp.data) = {}
       ELSE /\ resp.data.t = "null"
            /\ resp.errors.t = "list"
            /\ Len(resp.errors.l) > 0

\* a document changed in two fields was rejected with two errors and no data
C1_Witness ==
  /\ flow = "validate"
  /\ ~resp.valid
  /\ Len(resp.errors.l) = 2
  /\ edits = 2

\* C2: POST /export never produces a document when a rule is violated: it
\* answers 422 with the full list of violations, and generate_docx and save
\* are called only after ResumeModel accepted the payload.
C2_ExportBlockedOnViolation ==
  flow = "export" =>
    LET expected == Violations(resume_data)
    IN /\ expected # {} =>
            /\ resp.status = 422
            /\ "file" \notin DOMAIN resp
            /\ ErrorFields(resp.detail.errors) = expected
            /\ Len(resp.detail.errors) = Cardinality(expected)
       /\ \A i \in 1..Len(calls) :
            calls[i] \in {"generate_docx", "save"} =>
              /\ expected = {}
              /\ \E j \in 1..(i - 1) : calls[j] = "ResumeModel"

\* an export of a document with several violations was refused
C2_Witness ==
  /\ flow = "export"
  /\ resp.status = 422
  /\ Len(resp.detail.errors) >= 2
  /\ calls = <<"ResumeModel">>

\* C3: a document with violations in K distinct fields gets exactly K
\* errors, one at the path of each violating field: none is left out after
\* the first, none is reported twice. A violating field is a declared field
\* whose value is rejected when every other field is valid, or an undeclared
\* top-level key.
C3_OneErrorPerViolatingField ==
  flow = "validate" =>
    LET expected == Violations(resume_data)
    IN IF resp.valid THEN expected = {}
       ELSE /\ Len(resp.errors.l) = Cardinality(expected)
            /\ ErrorFields(resp.errors.l) = expected

\* nine fields violate a rule at once
C3_Witness ==
  /\ flow = "validate"
  /\ ~resp.valid
  /\ Cardinality(Violations(resume_data)) = 9
  /\ Len(resp.errors.l) = 9

\* C4: the schema is closed at every nesting level: a key that the class of
\* a nested mapping (header, expertise, skills, an experience, a project, an
\* education, an award) does not declare is reported as an error at its path.
C4_ClosedAtEveryLevel ==
  flow = "validate" /\ NestedUndeclaredKeys(resume_data) # {} =>
    /\ ~resp.valid
    /\ NestedUndeclaredKeys(resume_data) \subseteq ErrorFields(resp.errors.l)

\* C5: a top-level key that ResumeModel does not declare yields exactly one
\* error, at that key; in a document with no other violation it is the only
\* error of the response.
C5_ExtraTopLevelKey ==
  flow = "validate" =>
    /\ UndeclaredKeys(resume_data) # {} => ~resp.valid
    /\ \A key \in UndeclaredKeys(resume_data) :
         /\ Cardinality({i \in 1..Len(resp.errors.l) :
                           resp.errors.l[i].field = key}) = 1
         /\ \A i \in 1..Len(resp.errors.l) :
              resp.errors.l[i].field = key =>
                resp.errors.l[i].type = "extra_forbidden"
         /\ (DeclaredViolations(resume_data) = {}
               /\ UndeclaredKeys(resume_data) = {key})
              => Len(resp.errors.l) = 1

\* a document whose only defect is one undeclared top-level key
C5_Witness ==
  /\ flow = "validate"
  /\ UndeclaredKeys(resume_data) = {"extra_field"}
  /\ DeclaredViolations(resume_data) = {}
  /\ ~resp.valid

\* C6: POST /preview answers a document that violates no rule with HTTP 200,
\* valid = true, no errors and the HTML rendered from the document.
C6_PreviewOfValidDocument ==
  flow = "preview" /\ Violations(resume_data) = {} =>
    /\ resp.status = 200
    /\ resp.valid
    /\ resp.errors.t = "null"
    /\ resp.html.kind = "full"

-----------------------------------------------------------------------------
(* Requests that vary one field of the accepted document *)

\* the value at a path of a document
RECURSIVE ValueAt(_, _)
ValueAt(d, path) ==
  IF path = <<>> THEN d
  ELSE LET x == Head(path)
       IN IF x.t = "key"
          THEN (IF d.t = "dict" THEN ValueAt(Get(d, x.k), Tail(path)) ELSE Absent)
          ELSE (IF d.t = "list" /\ x.i + 1 <= Len(d.l)
                THEN ValueAt(d.l[x.i + 1], Tail(path)) ELSE Absent)

\* the errors a /validate response reports at a path
ErrorsAt(path) == SelectSeq(resp.errors.l, LAMBDA e : e.field = path)

\* the server answering requests for a document that no longer changes
InitWith(docs) ==
  /\ resume_data \in docs
  /\ edits = 0
  /\ pc = "idle"
  /\ flow = "none"
  /\ resp = NoResponse
  /\ calls = <<>>
  /\ inflight = <<>>

-----------------------------------------------------------------------------
(* Summaries of a known number of words *)

\* the longest summary, in words
MaxWords == 121

WordCounts == {0, 1, 79, 80, 81, 100, 119, 120} \cup (121..MaxWords)

\* the whitespace between two words, and around the summary
Separators ==
  {<<Ch.sp>>, <<Ch.sp, Ch.sp>>, <<Ch.tab>>, <<Ch.nl, Ch.sp>>, <<Ch.nbsp>>}

Paddings == {<<>>, <<Ch.sp, Ch.nl>>}

\* the last word of a summary is a letter or an emoji
SummaryCases ==
  [n : WordCounts, sep : Separators, pad : Paddings, last : {Ch.w, Ch.grin}]

\* n words: n - 1 one-letter words and the last one, pad before and after
SummaryText(c) ==
  c.pad \o (IF c.n = 0 THEN <<>> ELSE Rep(<<Ch.w>> \o c.sep, c.n - 1) \o <<c.last>>)
        \o c.pad

SummaryPath == <<K("expertise"), K("summary")>>

InitWords ==
  InitWith({SetAt(ValidResume, SummaryPath, Str(SummaryText(c))) : c \in SummaryCases})

SpecWords == InitWords /\ [][Serve]_vars

\* the word-count errors of a /validate response
WordCountErrors ==
  SelectSeq(ErrorsAt("expertise.summary"),
            LAMBDA e : Len(e.message) = 3
                       /\ e.message[2] = "Summary must be 80-120 words, got ")

-----------------------------------------------------------------------------
(* Dates: one date field of the accepted document takes each text *)

\* the month-year fields; end_date alone admits "Present" and null
DateFields ==
  { [path |-> <<K("experience"), I(0), K("start_date")>>, end_date |-> FALSE],
    [path |-> <<K("experience"), I(0), K("end_date")>>, end_date |-> TRUE],
    [path |-> <<K("projects"), I(0), K("start_date")>>, end_date |-> FALSE],
    [path |-> <<K("projects"), I(0), K("end_date")>>, end_date |-> TRUE],
    [path |-> <<K("education"), I(0), K("graduation_date")>>, end_date |-> FALSE],
    [path |-> <<K("awards"), I(0), K("date")>>, end_date |-> FALSE] }

MonthTexts ==
  { <<Ch.J, Ch.A, Ch.N>>, <<Ch.J, Ch.a, Ch.n>>, <<Ch.j, Ch.a, Ch.n>>,
    <<Ch.J, Ch.a, Ch.n, Ch.u, Ch.a, Ch.r, Ch.y>>, <<Ch.d0, Ch.d1>> }

GapTexts == {<<Ch.sp>>, <<>>, <<Ch.sp, Ch.sp>>, <<Ch.minus>>}

\* 2020, 20, and 2020 in Arabic-Indic digits
YearTexts ==
  { <<Ch.d2, Ch.d0, Ch.d2, Ch.d0>>, <<Ch.d2, Ch.d0>>,
    <<Ch.arabic2, Ch.arabic0, Ch.arabic2, Ch.arabic0>> }

DateTexts ==
  {m \o g \o y \o t : m \in MonthTexts, g \in GapTexts, y \in YearTexts,
                      t \in {<<>>, <<Ch.sp>>}}
    \cup {StrPresent, <<Ch.P, Ch.r, Ch.e, Ch.s, Ch.e, Ch.n, Ch.t, Ch.sp>>}

DateValues == {Str(s) : s \in DateTexts} \cup {Null, Absent}

InitDates ==
  InitWith({SetAt(ValidResume, f.path, v) : f \in DateFields, v \in DateValues})

SpecDates == InitDates /\ [][Serve]_vars

\* three uppercase ASCII letters, one ASCII space, four ASCII digits
MonthYear(s) ==
  /\ Len(s) = 8
  /\ \A i \in 1..3 : s[i] \in 65..90
  /\ s[4] = 32
  /\ \A i \in 5..8 : s[i] \in 48..57

\* C8: a month-year field (start_date, graduation_date, an award's date, and
\* end_date when it is not "Present") is accepted if and only if its value is
\* three uppercase ASCII letters, one ASCII space and four ASCII digits, with
\* nothing before or after.
C8_DateGrammar ==
  flow = "validate" =>
    \A f \in DateFields :
      LET v == ValueAt(resume_data, f.path)
      IN (v.t = "str" /\ ~(f.end_date /\ v.s = StrPresent)) =>
           (ErrorsAt(join_loc(f.path)) = <<>> <=> MonthYear(v.s))

\* C9: "Present" is accepted only as an end_date: it is rejected as the
\* start_date of an experience or a project, as a graduation_date and as the
\* date of an award; an end_date may be left out (absent or null).
C9_PresentOnlyAsEndDate ==
  flow = "validate" =>
    \A f \in DateFields :
      LET v == ValueAt(resume_data, f.path)
          errs == ErrorsAt(join_loc(f.path))
      IN /\ (v.t = "str" /\ v.s = StrPresent) =>
              IF f.end_date THEN errs = <<>>
              ELSE Len(errs) = 1 /\ errs[1].type = "string_pattern_mismatch"
         /\ (f.end_date /\ v.t \in {"absent", "null"}) => errs = <<>>
         /\ (~f.end_date /\ v.t \in {"absent", "null"}) => Len(errs) = 1

\* "Present" as the start_date of a project was rejected while the
\* "Present" end_date of the experiences of the same document was not
C9_Witness ==
  /\ flow = "validate"
  /\ ValueAt(resume_data, <<K("projects"), I(0), K("start_date")>>) = Str(StrPresent)
  /\ ValueAt(resume_data, <<K("experience"), I(0), K("end_date")>>) = Str(StrPresent)
  /\ ErrorFields(resp.errors.l) = {"projects.0.start_date"}

-----------------------------------------------------------------------------
(* Responsibilities: the list of the first experience takes each value *)

\* the longest responsibilities list
MaxResp == 4

\* a plain entry, an empty one, a whitespace-only one, one with an emoji
ResponsibilityTexts == {TxtJan, <<>>, <<Ch.sp, Ch.tab>>, TxtGrin}

ResponsibilityLists ==
  UNION {[1..n -> {Str(s) : s \in ResponsibilityTexts}] : n \in 0..MaxResp}

ResponsibilitiesPath == <<K("experience"), I(0), K("responsibilities")>>

InitResp ==
  InitWith({SetAt(ValidResume, ResponsibilitiesPath, List(l)) : l \in ResponsibilityLists})

SpecResp == InitResp /\ [][Serve]_vars

\* an entry that is empty or whitespace-only: no character of it is anything
\* but whitespace (tab, newline, vertical tab, form feed, return, space)
Blank(s) == \A i \in 1..Len(s) : s[i] \in (9..13) \cup {32}

\* the text of a message, its fragments put together
RECURSIVE Text(_)
Text(msg) == IF msg = <<>> THEN "" ELSE Head(msg) \o Text(Tail(msg))

\* C10: an experience is accepted only if its responsibilities list has at
\* least 3 entries and none is empty or whitespace-only; 3 well-formed
\* entries pass; 0, 1 or 2 entries fail with a message that names the
\* minimum 3; a list of 3 or more with an empty or whitespace-only entry
\* fails with the message that responsibilities cannot be empty.
C10_Responsibilities ==
  flow = "validate" =>
    LET v == ValueAt(resume_data, ResponsibilitiesPath).l
        errs == ErrorsAt("experience.0.responsibilities")
        blank == \E i \in 1..Len(v) : Blank(v[i].s)
        emoji == \E i \in 1..Len(v) : emoji_search(v[i].s)
    IN /\ errs = <<>> => (Len(v) >= 3 /\ ~blank)
       /\ (Len(v) = 3 /\ ~blank /\ ~emoji) => resp.valid
       /\ Len(v) < 3 =>
            /\ Len(errs) = 1
            /\ \E k \in 1..Len(errs[1].message) : errs[1].message[k] = "3"
       /\ (Len(v) >= 3 /\ blank) =>
            \E k \in 1..Len(errs) :
              Text(errs[k].message) = "Value error, Responsibilities cannot be empty"

\* whether a message names the minimum of three entries
NamesMinimum(msg) == \E k \in 1..Len(msg) : msg[k] = "3"

\* C11: the count check and the empty-entry check on responsibilities are
\* independent: a list of fewer than 3 entries that has an empty or
\* whitespace-only entry gets both a minimum-count error and an empty-entry
\* error, each once.
C11_CountAndBlankIndependent ==
  flow = "validate" =>
    LET v == ValueAt(resume_data, ResponsibilitiesPath).l
        errs == ErrorsAt("experience.0.responsibilities")
    IN (Len(v) < 3 /\ \E i \in 1..Len(v) : Blank(v[i].s)) =>
         /\ Cardinality({k \in 1..Len(errs) : NamesMinimum(errs[k].message)}) = 1
         /\ Cardinality({k \in 1..Len(errs) :
              Text(errs[k].message) = "Value error, Responsibilities cannot be empty"}) = 1

-----------------------------------------------------------------------------
(* Emoji: one free-text field of the accepted document gets emoji added *)

\* the free-text fields with an emoji rule, and where their error is reported
EmojiFields ==
  { [path |-> <<K("header"), K("name")>>, at |-> "header.name"],
    [path |-> <<K("header"), K("title")>>, at |-> "header.title"],
    [path |-> <<K("header"), K("location")>>, at |-> "header.location"],
    [path |-> <<K("expertise"), K("summary")>>, at |-> "expertise.summary"],
    [path |-> <<K("skills"), K("skills")>>, at |-> "skills.skills"],
    [path |-> <<K("experience"), I(0), K("company")>>, at |-> "experience.0.company"],
    [path |-> <<K("experience"), I(1), K("position")>>, at |-> "experience.1.position"],
    [path |-> <<K("experience"), I(0), K("responsibilities"), I(1)>>,
     at |-> "experience.0.responsibilities"],
    [path |-> <<K("projects"), I(0), K("name")>>, at |-> "projects.0.name"],
    [path |-> <<K("projects"), I(0), K("description")>>, at |-> "projects.0.description"],
    [path |-> <<K("projects"), I(0), K("technologies")>>, at |-> "projects.0.technologies"],
    [path |-> <<K("education"), I(0), K("institution")>>, at |-> "education.0.institution"],
    [path |-> <<K("education"), I(0), K("degree")>>, at |-> "education.0.degree"],
    [path |-> <<K("education"), I(0), K("field_of_study")>>,
     at |-> "education.0.field_of_study"],
    [path |-> <<K("education"), I(0), K("gpa")>>, at |-> "education.0.gpa"],
    [path |-> <<K("awards"), I(0), K("title")>>, at |-> "awards.0.title"],
    [path |-> <<K("awards"), I(0), K("organization")>>, at |-> "awards.0.organization"],
    [path |-> <<K("awards"), I(0), K("description")>>, at |-> "awards.0.description"] }

\* the first and the last code point of each listed range:
\* U+1F600-1F64F, U+1F300-1F5FF, U+1F680-1F6FF, U+1F1E0-1F1FF, U+2702-27B0,
\* U+24C2-1F251
ListedRanges ==
  { <<128512, 128591>>, <<127744, 128511>>, <<128640, 128767>>,
    <<127456, 127487>>, <<9986, 10160>>, <<9410, 127569>> }

EmojiCodePoints == UNION {{r[1], r[2]} : r \in ListedRanges}

InListedRanges(c) == \E r \in ListedRanges : r[1] <= c /\ c <= r[2]

\* where the code point goes: before the text, inside it, after it, or
\* both before and after
Placements == {"start", "middle", "end", "both"}

Placed(text, c, where) ==
  CASE where = "start" -> <<c>> \o text
    [] where = "end" -> text \o <<c>>
    [] where = "both" -> <<c>> \o text \o <<c>>
    [] OTHER -> SubSeq(text, 1, Len(text) \div 2) \o <<c>>
                  \o SubSeq(text, (Len(text) \div 2) + 1, Len(text))

InitEmoji ==
  InitWith({SetAt(ValidResume, f.path,
                  Str(Placed(ValueAt(ValidResume, f.path).s, c, where))) :
              f \in EmojiFields, c \in EmojiCodePoints, where \in Placements})

SpecEmoji == InitEmoji /\ [][Serve]_vars

\* C12: every free-text field with an emoji rule rejects a value that has a
\* code point of the listed ranges anywhere in it, with one error for the
\* field, whose message is about emoji, however many such code points the
\* value has.
C12_EmojiRejected ==
  flow = "validate" =>
    \A f \in EmojiFields :
      LET v == ValueAt(resume_data, f.path)
      IN (v.t = "str" /\ \E i \in 1..Len(v.s) : InListedRanges(v.s[i])) =>
           /\ ~resp.valid
           /\ Len(ErrorsAt(f.at)) = 1
           /\ mentions(ErrorsAt(f.at)[1].message, "emoji")

\* a gpa with U+1F6FF before and after it was rejected with one emoji error
C12_Witness ==
  /\ flow = "validate"
  /\ ValueAt(resume_data, <<K("education"), I(0), K("gpa")>>).s =
       <<128767, Ch.d2, Ch.dot, Ch.d5, 128767>>
  /\ Len(resp.errors.l) = 1
  /\ mentions(resp.errors.l[1].message, "emoji")

-----------------------------------------------------------------------------
(* Scripts: one free-text field gets a character that is no emoji *)

\* A, e with acute (Latin-1), l with stroke (Latin Extended-A), a with
\* stroke (Latin Extended-C, U+2C65), fullwidth A (U+FF21), the CJK
\* ideograph U+4E2D and the Hiragana letter U+3042
PlainCodePoints == {Ch.A, Ch.eacute, 322, 11365, 65313, Ch.cjk, 12354}

\* the code points of ASCII and of the Latin-script blocks: Latin-1,
\* Latin Extended-A and -B, Latin Extended Additional, Latin Extended-C and
\* -D, and the fullwidth Latin letters
LatinScript(c) ==
  \/ c \in 0..127 \/ c \in 160..591 \/ c \in 7680..7935
  \/ c \in 11360..11391 \/ c \in 42784..43007
  \/ c \in 65313..65338 \/ c \in 65345..65370

\* letters of other scripts: Hiragana, Katakana, CJK unified ideographs
OtherScript(c) == c \in 12353..12543 \/ c \in 19968..40959

InitScripts ==
  InitWith({SetAt(ValidResume, f.path,
                  Str(Placed(ValueAt(ValidResume, f.path).s, c, where))) :
              f \in EmojiFields, c \in PlainCodePoints, where \in Placements})

SpecScripts == InitScripts /\ [][Serve]_vars

\* C13: the emoji rule never fires on text that has no emoji: a value made
\* of ASCII and Latin-script characters, or of letters of another script,
\* gets no error about emoji.
C13_NoSpuriousEmoji ==
  flow = "validate" =>
    \A f \in EmojiFields :
      LET v == ValueAt(resume_data, f.path)
      IN (v.t = "str" /\ \A i \in 1..Len(v.s) : LatinScript(v.s[i]) \/ OtherScript(v.s[i])) =>
           \A k \in 1..Len(ErrorsAt(f.at)) :
             ~mentions(ErrorsAt(f.at)[k].message, "emoji")

-----------------------------------------------------------------------------
(* Skills: the skills string is put together from tokens and a joiner *)

\* the most tokens of a skills string
MaxTokens == 3

\* a letter, nothing, a padded letter, an emoji
TokenTexts == {<<Ch.a>>, <<>>, <<Ch.sp, Ch.b, Ch.sp>>, <<Ch.grin>>}

\* what stands between two tokens: a comma, a space, a slash
Joiners == {Ch.comma, Ch.sp, Ch.slash}

SkillsCases ==
  UNION {[tokens : [1..n -> TokenTexts], joiner : Joiners] : n \in 1..MaxTokens}

SkillsText(c) ==
  Flatten([i \in 1..Len(c.tokens) |->
             IF i = 1 THEN c.tokens[i] ELSE <<c.joiner>> \o c.tokens[i]])

SkillsPath == <<K("skills"), K("skills")>>

InitSkills ==
  InitWith({SetAt(ValidResume, SkillsPath, Str(SkillsText(c))) : c \in SkillsCases})

SpecSkills == InitSkills /\ [][Serve]_vars

\* C14: the skills string passes the comma rule exactly when it has a comma:
\* a non-empty string without one fails with a message about the comma
\* format, "a," passes, and with a comma every token is checked for emoji so
\* that an emoji in any token rejects the field.
C14_CommaRule ==
  flow = "validate" =>
    \A c \in SkillsCases :
      ValueAt(resume_data, SkillsPath).s = SkillsText(c) =>
        LET errs == ErrorsAt("skills.skills")
            comma == c.joiner = Ch.comma /\ Len(c.tokens) >= 2
            emoji == \E i \in 1..Len(c.tokens) : c.tokens[i] = <<Ch.grin>>
        IN IF comma
           THEN IF emoji
                THEN Len(errs) = 1 /\ mentions(errs[1].message, "emoji")
                ELSE resp.valid
           ELSE /\ Len(errs) = 1
                /\ SkillsText(c) # <<>> => mentions(errs[1].message, "comma")

\* "a," was accepted
C14_Witness ==
  /\ flow = "validate"
  /\ ValueAt(resume_data, SkillsPath).s = <<Ch.a, Ch.comma>>
  /\ resp.valid

-----------------------------------------------------------------------------
(* Sections: each list section is kept, left out or emptied *)

ListSections == <<"experience", "projects", "education", "awards">>

RequiredLists == {"experience", "projects", "education"}

\* a section keeps its value, is left out, or is the empty list
SectionChoices == [1..Len(ListSections) -> {"kept", "absent", "empty"}]

RECURSIVE WithSections(_, _, _)
WithSections(doc, choice, i) ==
  IF i > Len(ListSections) THEN doc
  ELSE WithSections(
         CASE choice[i] = "absent" -> SetAt(doc, <<K(ListSections[i])>>, Absent)
           [] choice[i] = "empty" -> SetAt(doc, <<K(ListSections[i])>>, List(<<>>))
           [] OTHER -> doc,
         choice, i + 1)

InitSections ==
  InitWith({WithSections(ValidResume, choice, 1) : choice \in SectionChoices})

SpecSections == InitSections /\ [][Serve]_vars

\* a section that is missing or is the empty list
MissingOrEmpty(v) == v.t = "absent" \/ (v.t = "list" /\ Len(v.l) = 0)

\* C15: experience, projects and education are required and non-empty: a
\* document where one of them is missing or is the empty list is rejected
\* with an error at the path of that section; awards may be empty or
\* missing, and when it is missing the validated document has awards = [].
C15_RequiredSections ==
  flow = "validate" =>
    /\ \A section \in RequiredLists :
         MissingOrEmpty(Get(resume_data, section)) =>
           ~resp.valid /\ Len(ErrorsAt(section)) = 1
    /\ MissingOrEmpty(Get(resume_data, "awards")) =>
         /\ ErrorsAt("awards") = <<>>
         /\ (\A section \in RequiredLists :
               ~MissingOrEmpty(Get(resume_data, section))) => resp.valid
         /\ resp.valid => Get(resp.data, "awards") = List(<<>>)

\* projects empty and education missing were reported, awards missing was not
C15_Witness ==
  /\ flow = "validate"
  /\ Get(resume_data, "projects") = List(<<>>)
  /\ "education" \notin Keys(resume_data)
  /\ "awards" \notin Keys(resume_data)
  /\ ErrorFields(resp.errors.l) = {"projects", "education"}

-----------------------------------------------------------------------------
(* Lengths: one length-limited field takes a text around its ceiling *)

\* the length-limited fields and their ceilings
LengthCeilings ==
  { [path |-> <<K("header"), K("name")>>, at |-> "header.name", max |-> 100],
    [path |-> <<K("header"), K("title")>>, at |-> "header.title", max |-> 150],
    [path |-> <<K("header"), K("location")>>, at |-> "header.location", max |-> 100],
    [path |-> <<K("experience"), I(0), K("company")>>, at |-> "experience.0.company",
     max |-> 100],
    [path |-> <<K("experience"), I(0), K("position")>>, at |-> "experience.0.position",
     max |-> 100],
    [path |-> <<K("projects"), I(0), K("name")>>, at |-> "projects.0.name", max |-> 100],
    [path |-> <<K("projects"), I(0), K("description")>>, at |-> "projects.0.description",
     max |-> 500],
    [path |-> <<K("education"), I(0), K("institution")>>,
     at |-> "education.0.institution", max |-> 100],
    [path |-> <<K("education"), I(0), K("degree")>>, at |-> "education.0.degree",
     max |-> 100],
    [path |-> <<K("education"), I(0), K("field_of_study")>>,
     at |-> "education.0.field_of_study", max |-> 100],
    [path |-> <<K("education"), I(0), K("gpa")>>, at |-> "education.0.gpa", max |-> 10],
    [path |-> <<K("awards"), I(0), K("title")>>, at |-> "awards.0.title", max |-> 100],
    [path |-> <<K("awards"), I(0), K("organization")>>, at |-> "awards.0.organization",
     max |-> 100],
    [path |-> <<K("awards"), I(0), K("description")>>, at |-> "awards.0.description",
     max |-> 200] }

InitLengths ==
  InitWith({SetAt(ValidResume, f.path, Str(Rep(<<Ch.a>>, n))) :
              f \in LengthCeilings, n \in {9, 10, 11, 100, 101, 150, 151, 200, 201, 500, 501}})

SpecLengths == InitLengths /\ [][Serve]_vars

\* C16: each length-limited field accepts a value as long as its ceiling
\* and rejects one that is a character longer: name 100, title 150,
\* location 100, company 100, position 100, project name 100, project
\* description 500, institution 100, degree 100, field_of_study 100, gpa 10,
\* award title 100, award organization 100, award description 200.
C16_LengthCeilings ==
  flow = "validate" =>
    \A f \in LengthCeilings :
      LET v == ValueAt(resume_data, f.path)
      IN IF Len(v.s) <= f.max
         THEN ErrorsAt(f.at) = <<>>
         ELSE /\ ~resp.valid
              /\ Len(ErrorsAt(f.at)) = 1
              /\ ErrorsAt(f.at)[1].type = "string_too_long"

\* a project description of 500 characters was accepted
C16_Witness ==
  /\ flow = "validate"
  /\ Len(ValueAt(resume_data, <<K("projects"), I(0), K("description")>>).s) = 500
  /\ resp.valid

-----------------------------------------------------------------------------
(* Properties of the error records *)

\* the error records of a response that reports validation errors
ReportedErrors ==
  IF flow = "export" /\ resp.status = 422 THEN resp.detail.errors
  ELSE IF flow \in {"validate", "preview"} /\ resp.status = 200 /\ ~resp.valid
  THEN resp.errors.l
  ELSE <<>>

\* C17: in the validate, preview and export flows every error record has a
\* field path, a message and a rule-kind tag (type).
C17_ErrorRecordShape ==
  \A i \in 1..Len(ReportedErrors) :
    /\ {"field", "message", "type"} \subseteq DOMAIN ReportedErrors[i]
    /\ ReportedErrors[i].field # ""
    /\ ReportedErrors[i].message # <<>>
    /\ ReportedErrors[i].type # ""


\* the ten kinds of violation
Taxonomy ==
  {"missing_field", "type_mismatch", "length_violation", "pattern_violation",
   "word_count_violation", "emoji_violation", "comma_format_violation",
   "min_count_violation", "empty_element_violation", "unknown_field"}

\* the kind of the rule a validator's message is about, "" for the others
KindOfMessage(msg) ==
  IF \E k \in 1..Len(msg) : msg[k] = "Summary must be 80-120 words, got "
  THEN "word_count_violation"
  ELSE IF \E k \in 1..Len(msg) : msg[k] = "Skills must be in comma-separated format"
  THEN "comma_format_violation"
  ELSE IF \E k \in 1..Len(msg) : msg[k] = "Responsibilities cannot be empty"
  THEN "empty_element_violation"
  ELSE IF mentions(msg, "emoji") THEN "emoji_violation"
  ELSE ""

\* the error records of a response that carry a type
TypedErrors == IF flow = "export" THEN <<>> ELSE ReportedErrors

\* C18: the type of every error record is one of the ten kinds of the
\* taxonomy, and violations of different kinds (word count, emoji, comma
\* format, empty element) have different types.
C18_TypeTaxonomy ==
  /\ \A i \in 1..Len(TypedErrors) : TypedErrors[i].type \in Taxonomy
  /\ \A i, j \in 1..Len(TypedErrors) :
       (/\ KindOfMessage(TypedErrors[i].message) # ""
        /\ KindOfMessage(TypedErrors[j].message) # ""
        /\ KindOfMessage(TypedErrors[i].message) # KindOfMessage(TypedErrors[j].message))
         => TypedErrors[i].type # TypedErrors[j].type


\* the fields of each model class in the order of their declaration
DeclarationOrder ==
  [header |-> <<"name", "title", "email", "phone", "location">>,
   expertise |-> <<"summary">>,
   skills |-> <<"skills">>,
   experience |-> <<"company", "position", "start_date", "end_date",
                    "responsibilities">>,
   projects |-> <<"name", "description", "technologies", "start_date", "end_date">>,
   education |-> <<"institution", "degree", "field_of_study", "graduation_date",
                   "gpa">>,
   awards |-> <<"title", "organization", "date", "description">>]

\* the paths of a mapping: its own, then those of its fields
PathsOfMapping(prefix, section) ==
  <<prefix>> \o [k \in 1..Len(DeclarationOrder[section]) |->
                   prefix \o "." \o DeclarationOrder[section][k]]

\* the paths of a section of a document: its own, then those of its fields,
\* for a list those of its elements in input order
PathsOfSection(doc, section) ==
  LET raw == Get(doc, section)
  IN IF raw.t = "list"
     THEN <<section>> \o Flatten([i \in 1..Len(raw.l) |->
                          PathsOfMapping(section \o "." \o ToString(i - 1), section)])
     ELSE PathsOfMapping(section, section)

\* the order of evaluation: the sections in declaration order, outer before
\* inner, then the undeclared top-level keys as the payload has them
EvaluationOrder(doc) ==
  Flatten([i \in 1..Len(ResumeFields) |-> PathsOfSection(doc, ResumeFields[i])])
    \o [k \in 1..Len(SelectSeq(doc.d, LAMBDA e : e.key \in UndeclaredKeys(doc))) |->
          SelectSeq(doc.d, LAMBDA e : e.key \in UndeclaredKeys(doc))[k].key]

\* C19: the errors come in the fixed order of evaluation (sections in the
\* order header, expertise, skills, experience, projects, education, awards,
\* outer before inner, fields in declaration order, list elements in input
\* order), and the response to a payload is a function of the payload alone,
\* so that validating it again gives the same list in the same order.
C19_DeterministicOrder ==
  flow = "validate" =>
    LET order == EvaluationOrder(resume_data)
        errs == resp.errors.l
        Position(path) == CHOOSE k \in 1..Len(order) : order[k] = path
    IN /\ \A i \in 1..Len(errs) : \E k \in 1..Len(order) : order[k] = errs[i].field
       /\ \A i \in 1..Len(errs) : \A j \in (i + 1)..Len(errs) :
            Position(errs[i].field) < Position(errs[j].field)
       /\ resp = validate_resume(resume_data).resp

\* the seven errors of the seven-violation document, in order
C19_Witness ==
  /\ flow = "validate"
  /\ Len(resp.errors.l) = 7
  /\ [i \in 1..7 |-> resp.errors.l[i].field] =
       <<"header.email", "expertise.summary", "skills.skills",
         "experience.0.start_date", "experience.0.responsibilities", "projects",
         "education">>

-----------------------------------------------------------------------------
(* Shapes: one declared field takes a value of another shape *)

\* the fields of the first element of a list section, or of a section that
\* is one mapping
FieldsUnder(prefix, at, cls) ==
  {[path |-> prefix \o <<K(key)>>, at |-> at \o "." \o key,
    kind |-> IF key = "responsibilities" THEN "list" ELSE "str"] :
     key \in FieldsOf[cls]}

\* every declared field with the shape it is declared with
ShapeFields ==
  FieldsUnder(<<K("header")>>, "header", "HeaderModel")
    \cup FieldsUnder(<<K("expertise")>>, "expertise", "ExpertiseModel")
    \cup FieldsUnder(<<K("skills")>>, "skills", "SkillsModel")
    \cup FieldsUnder(<<K("experience"), I(0)>>, "experience.0", "ExperienceModel")
    \cup FieldsUnder(<<K("projects"), I(0)>>, "projects.0", "ProjectModel")
    \cup FieldsUnder(<<K("education"), I(0)>>, "education.0", "EducationModel")
    \cup FieldsUnder(<<K("awards"), I(0)>>, "awards.0", "AwardModel")
    \cup {[path |-> <<K(s)>>, at |-> s, kind |-> "dict"] :
            s \in {"header", "expertise", "skills"}}
    \cup {[path |-> <<K(s)>>, at |-> s, kind |-> "list"] :
            s \in {"experience", "projects", "education", "awards"}}
    \cup {[path |-> <<K(s), I(0)>>, at |-> s \o ".0", kind |-> "dict"] :
            s \in {"experience", "projects", "education", "awards"}}

\* a string, a number, a mapping and a list, each with an emoji where it
\* has text
ShapedValues ==
  {Str(TxtGrin), Num(7), Dict(<<E("name", Str(TxtGrin))>>), List(<<Str(TxtGrin)>>)}

\* a defect of another field that goes with the wrong shape, if any
SiblingDefects ==
  { Change(<<K("header"), K("email")>>, Str(TxtJan)),
    Change(<<K("awards"), I(0), K("date")>>, Str(TxtJan)),
    Change(<<K("extra_field")>>, Null) }

InitShapes ==
  InitWith(UNION {{SetAt(SetAt(ValidResume, ch.path, ch.val), f.path, v) :
                     ch \in SiblingDefects,
                     v \in {x \in ShapedValues : x.t # f.kind}} :
                   f \in ShapeFields})

SpecShapes == InitShapes /\ [][Serve]_vars

TypeErrors == {"string_type", "list_type", "model_type"}

\* C20: a declared field whose value has another shape than declared (a
\* number, mapping or list for a string, a string or number for a list or a
\* mapping) gets exactly one error, a type error: none of its rules is
\* evaluated on it; the other fields are validated as if it were well-formed.
C20_WrongShape ==
  flow = "validate" =>
    \A f \in ShapeFields :
      LET v == ValueAt(resume_data, f.path)
      IN (v.t \in {"str", "int", "dict", "list"} /\ v.t # f.kind) =>
           LET others == Violations(SetAt(resume_data, f.path,
                                          ValueAt(ValidResume, f.path)))
           IN /\ Len(ErrorsAt(f.at)) = 1
              /\ ErrorsAt(f.at)[1].type \in TypeErrors
              /\ ErrorFields(resp.errors.l) = {f.at} \cup others
              /\ Len(resp.errors.l) = 1 + Cardinality(others)

\* a number as the start date of a project and a bad email next to it
C20_Witness ==
  /\ flow = "validate"
  /\ ValueAt(resume_data, <<K("projects"), I(0), K("start_date")>>) = Num(7)
  /\ ErrorFields(resp.errors.l) = {"header.email", "projects.0.start_date"}
  /\ ErrorsAt("projects.0.start_date")[1].type = "string_type"

-----------------------------------------------------------------------------
(* The validated output against the payload *)

\* whether the value out carries everything of the value passed in: a string
\* or a number as it was written, the elements of a list one for one in
\* their order, and every key of a mapping with its value
RECURSIVE Echoed(_, _)
Echoed(in, out) ==
  CASE in.t = "list" ->
         /\ out.t = "list"
         /\ Len(out.l) = Len(in.l)
         /\ \A i \in 1..Len(in.l) : Echoed(in.l[i], out.l[i])
    [] in.t = "dict" ->
         /\ out.t = "dict"
         /\ \A key \in Keys(in) :
              key \in Keys(out) /\ Echoed(Get(in, key), Get(out, key))
    [] OTHER -> out = in

\* C21: the data of a /validate response that accepts a document echoes
\* every value of the payload unchanged: strings as they were passed in, the
\* elements of a list with their values and their order.
C21_EchoUnchanged ==
  flow = "validate" /\ resp.valid => Echoed(resume_data, resp.data)

-----------------------------------------------------------------------------
(* Phone numbers of a few characters *)

\* the longest phone number, in characters
MaxPhone == 3

\* a digit, another script's digit, a space, a line break, the signs and a letter
PhoneAlphabet ==
  {Ch.d1, Ch.arabic2, Ch.sp, Ch.nl, Ch.plus, Ch.lpar, Ch.a}

PhoneTexts == UNION {[1..n -> PhoneAlphabet] : n \in 0..MaxPhone}

PhonePath == <<K("header"), K("phone")>>

InitPhones == InitWith({SetAt(ValidResume, PhonePath, Str(t)) : t \in PhoneTexts})

SpecPhones == InitPhones /\ [][Serve]_vars

\* a character the phone shape lists: 0-9, the space, + - ( )
PhoneCharacter(c) ==
  c \in 48..57 \/ c \in {Ch.sp, Ch.plus, Ch.minus, Ch.lpar, Ch.rpar}

\* C22: header.phone is accepted if and only if it is non-empty and every
\* character of it is a digit, a space, '+', '-' or a parenthesis.
C22_PhoneShape ==
  flow = "validate" =>
    LET phone == ValueAt(resume_data, PhonePath).s
    IN (ErrorsAt("header.phone") = <<>>) <=>
         /\ phone # <<>>
         /\ \A i \in 1..Len(phone) : PhoneCharacter(phone[i])

-----------------------------------------------------------------------------
(* The generated document *)

\* the sections of the document an export answered with, in order
SectionsOf(file) == [i \in 1..Len(file) |-> file[i].section]

\* C23: the document generated from a validated resume has the sections
\* header, expertise, skills, experience, projects, education in this order,
\* followed by awards if and only if the awards of the document are a
\* non-empty list.
C23_SectionOrder ==
  flow = "export" /\ resp.status = 200 =>
    LET awards == Get(resume_data, "awards")
    IN SectionsOf(resp.file) =
         <<"header", "expertise", "skills", "experience", "projects", "education">>
           \o (IF awards.t = "list" /\ Len(awards.l) > 0 THEN <<"awards">> ELSE <<>>)

\* a document exported without awards: the key left out, or null
C23_Witness ==
  /\ flow = "export"
  /\ resp.status = 200
  /\ Get(resume_data, "awards").t \in {"absent", "null"}
  /\ Len(resp.file) = 6

-----------------------------------------------------------------------------
(* Calls of POST /validate in flight at the same time *)

\* how many calls are in flight at once
MaxCalls == 2

Calls == 1..MaxCalls

\* the payloads of the calls: no error, one error, seven errors
CallPayloads ==
  {ValidResume, InvalidResume,
   SetAt(ValidResume, <<K("header"), K("name")>>, Str(TxtGrin))}

\* the frame of a call that has not started: its parameter and its locals
NoCall ==
  [pc |-> "idle", resume_data |-> Null, validated_resume |-> Ok(Null),
   formatted_errors |-> <<>>, resp |-> NoResponse]

\* formatted_error of the loop of validate_resume, for one error of e.errors()
formatted_error(error) == validate_result(Fail(<<error>>)).errors.l[1]

\* a formatted_errors list that all calls append to
formatted_errors_shared(lists, c, error) ==
  [d \in DOMAIN lists |-> Append(lists[d], formatted_error(error))]

\* formatted_errors.append(formatted_error): the list is a local of the call
formatted_errors_append(lists, c, error) ==
  [lists EXCEPT ![c] = Append(@, formatted_error(error))]

InitCalls ==
  /\ inflight = [c \in Calls |-> NoCall]
  /\ resume_data = Null
  /\ edits = 0
  /\ pc = "idle"
  /\ flow = "none"
  /\ resp = NoResponse
  /\ calls = <<>>

\* a request arrives: the handler is entered with its payload
Receive(c) ==
  /\ inflight[c].pc = "idle"
  /\ \E data \in CallPayloads :
       inflight' = [inflight EXCEPT ![c] = [NoCall EXCEPT !.pc = "construct",
                                                          !.resume_data = data]]
  /\ UNCHANGED <<resume_data, edits, pc, flow, resp, calls>>

\* validated_resume = ResumeModel(**resume_data), or the ValidationError
Construct(c) ==
  /\ inflight[c].pc = "construct"
  /\ \E r \in {ResumeModel(inflight[c].resume_data)} :
       inflight' = [inflight EXCEPT ![c].validated_resume = r,
                                    ![c].formatted_errors = <<>>,
                                    ![c].pc = IF r.ok THEN "return" ELSE "format"]
  /\ UNCHANGED <<resume_data, edits, pc, flow, resp, calls>>

\* one turn of the loop over e.errors()
FormatError(c) ==
  /\ inflight[c].pc = "format"
  /\ LET errs == inflight[c].validated_resume.errs
         done == Len(inflight[c].formatted_errors)
         lists == [d \in Calls |-> inflight[d].formatted_errors]
     IN IF done < Len(errs)
        THEN \E new \in {formatted_errors_append(lists, c, errs[done + 1])} :
               inflight' = [d \in Calls |->
                              [inflight[d] EXCEPT !.formatted_errors = new[d]]]
        ELSE inflight' = [inflight EXCEPT ![c].pc = "return"]
  /\ UNCHANGED <<resume_data, edits, pc, flow, resp, calls>>

\* return ValidationResponse(...)
Return(c) ==
  /\ inflight[c].pc = "return"
  /\ inflight' =
       [inflight EXCEPT
          ![c].resp = IF inflight[c].validated_resume.ok
                      THEN validate_result(inflight[c].validated_resume)
                      ELSE [status |-> 200, valid |-> FALSE,
                            errors |-> List(inflight[c].formatted_errors),
                            data |-> Null],
          ![c].pc = "done"]
  /\ UNCHANGED <<resume_data, edits, pc, flow, resp, calls>>

\* the response is sent and the frame of the call is gone
Complete(c) ==
  /\ inflight[c].pc = "done"
  /\ inflight' = [inflight EXCEPT ![c] = NoCall]
  /\ UNCHANGED <<resume_data, edits, pc, flow, resp, calls>>

NextCalls ==
  \E c \in Calls :
    Receive(c) \/ Construct(c) \/ FormatError(c) \/ Return(c) \/ Complete(c)

SpecCalls == InitCalls /\ [][NextCalls]_vars

\* C24: calls of /validate are independent: whatever the interleaving of
\* their steps, a call returns the response it returns when it runs alone
\* on its payload, and a step of one call leaves the parameter, the locals
\* and the response of every other call as they were.
C24_IndependentCalls ==
  /\ [](\A c \in Calls :
          inflight[c].pc = "done" =>
            inflight[c].resp = validate_resume(inflight[c].resume_data).resp)
  /\ [][\A c, d \in Calls :
          inflight'[c] # inflight[c] /\ d # c => inflight'[d] = inflight[d]]_vars

\* a call has returned its errors while another call, on another payload,
\* was in the middle of formatting its own
C24_Witness ==
  \E c, d \in Calls :
    /\ inflight[c].pc = "done"
    /\ ~inflight[c].resp.valid
    /\ inflight[d].pc = "format"
    /\ Len(inflight[d].formatted_errors) > 0
    /\ inflight[d].resume_data # inflight[c].resume_data

-----------------------------------------------------------------------------
(* Previews of documents as a form holds them while it is filled in *)

\* the accepted document with one change, the rejected document, and
\* documents with sections missing or of the wrong shape
PartialDocuments ==
  {SetAt(ValidResume, ch.path, ch.val) : ch \in Changes}
    \cup {ValidResume, InvalidResume, Dict(<<>>),
          Dict(<<E("header", ValidHeader)>>),
          Dict(<<E("header", Dict(<<E("name", Str(TxtGrin))>>)),
                 E("experience", Str(TxtJan))>>),
          Dict(<<E("header", Null), E("awards", Num(1))>>)}

InitPartial == InitWith(PartialDocuments)

SpecPartial == InitPartial /\ [][Serve]_vars

\* C25: POST /preview answers every document that fails validation with
\* HTTP 200, valid = false, all the validation errors and an HTML body: the
\* partial rendering, the fallback page of render_partial_html, or the
\* static error HTML when the renderer cannot be constructed.
C25_PreviewOfInvalidDocument ==
  flow = "preview" /\ ~ResumeModel(resume_data).ok =>
    /\ resp.status = 200
    /\ ~resp.valid
    /\ resp.html.kind \in {"partial", "fallback", "error"}
    /\ LET all == validate_resume(resume_data).resp.errors.l
       IN resp.errors.l =
            [i \in 1..Len(all) |->
               [field |-> all[i].field, message |-> all[i].message,
                type |-> all[i].type]]

\* the preview of a rejected document when the renderer cannot be constructed
C25_Witness ==
  /\ flow = "preview"
  /\ ~ResumeModel(resume_data).ok
  /\ calls = <<"ResumeModel", "ResumeRenderer">>
  /\ resp.status = 200
  /\ resp.html.kind = "error"
  /\ Len(resp.errors.l) > 1

-----------------------------------------------------------------------------
(* Attribute assignment on a constructed model *)

\* how many assignments are made to the instance
MaxAssignments == 2

\* model_config["validate_assignment"] of each class: ResumeModel sets it,
\* the other classes keep the default of BaseModel
validate_assignment ==
  [HeaderModel |-> FALSE, ExpertiseModel |-> FALSE, SkillsModel |-> FALSE,
   ExperienceModel |-> FALSE, ProjectModel |-> FALSE, EducationModel |-> FALSE,
   AwardModel |-> FALSE, ResumeModel |-> TRUE]

\* the class of the object that holds the attribute at a path of a resume
OwnerOf(path) ==
  IF Len(path) = 1 THEN "ResumeModel"
  ELSE CASE path[1].k = "header" -> "HeaderModel"
         [] path[1].k = "expertise" -> "ExpertiseModel"
         [] path[1].k = "skills" -> "SkillsModel"
         [] path[1].k = "experience" -> "ExperienceModel"
         [] path[1].k = "projects" -> "ProjectModel"
         [] path[1].k = "education" -> "EducationModel"
         [] OTHER -> "AwardModel"

\* BaseModel.__setattr__ on the object at the path: with validate_assignment
\* the value goes through the validation of the field and a failure raises
\* and stores nothing; without it the value is stored as it is
setattr(instance, path, value) ==
  IF validate_assignment[OwnerOf(path)]
  THEN LET r == ResumeModel(SetAt(ResumeModel(ValidResume).val, path, value))
       IN IF r.ok
          THEN [raised |-> FALSE,
                instance |-> SetAt(instance, path, Get(r.val, path[1].k))]
          ELSE [raised |-> TRUE, instance |-> instance]
  ELSE [raised |-> FALSE, instance |-> SetAt(instance, path, value)]

\* the attributes assigned to and the values assigned
Assignments ==
  { Change(<<K("header"), K("email")>>, Str(TxtJan)),
    Change(<<K("header"), K("email")>>, Str(TxtEmail)),
    Change(<<K("header"), K("name")>>, Str(TxtGrin)),
    Change(<<K("header"), K("name")>>, Str(TxtLatin)),
    Change(<<K("header"), K("location")>>, Str(TxtLatin)),
    Change(<<K("expertise"), K("summary")>>, Str(Words(2, <<Ch.sp>>))),
    Change(<<K("skills"), K("skills")>>, Str(TxtJan)),
    Change(<<K("experience"), I(0), K("company")>>, Str(TxtGrin)),
    Change(<<K("experience"), I(1), K("company")>>, Str(TxtLatin)),
    Change(<<K("projects"), I(0), K("name")>>, Str(TxtLatin)),
    Change(<<K("education"), I(0), K("gpa")>>, Null),
    Change(<<K("awards"), I(0), K("date")>>, Str(TxtJan)),
    Change(<<K("header")>>, Str(TxtJan)),
    Change(<<K("header")>>, SetAt(ValidHeader, <<K("name")>>, Str(TxtLatin))),
    Change(<<K("header")>>, SetAt(ValidHeader, <<K("name")>>, Str(TxtGrin))),
    Change(<<K("projects")>>, List(<<>>)),
    Change(<<K("awards")>>, List(<<>>)),
    Change(<<K("awards")>>, Null) }

\* a resume constructed from the accepted document
InitAssign ==
  /\ resume_data = ResumeModel(ValidResume).val
  /\ edits = 0
  /\ pc = "idle"
  /\ flow = "none"
  /\ resp = [raised |-> FALSE]
  /\ calls = <<>>
  /\ inflight = <<>>

\* one assignment to an attribute of the resume or of a record it holds
Assign ==
  /\ edits < MaxAssignments
  /\ \E a \in Assignments :
       /\ Applicable(resume_data, a.path)
       /\ \E out \in {setattr(resume_data, a.path, a.val)} :
            /\ resume_data' = out.instance
            /\ resp' = [raised |-> out.raised]
  /\ edits' = edits + 1
  /\ flow' = "assign"
  /\ UNCHANGED <<pc, calls, inflight>>

SpecAssign == InitAssign /\ [][Assign]_vars

\* C26: a constructed model keeps satisfying all field rules under any
\* sequence of attribute assignments: an assignment of a value that violates
\* a rule raises a validation error and stores nothing.
C26_ValidateOnAssignment == ResumeModel(resume_data).ok

-----------------------------------------------------------------------------
(* Responsibilities with an emoji in one entry and nothing in another *)

\* the errors of a /validate response whose message has the given text, at
\* the responsibilities list of the first experience or at an entry of it
ResponsibilityErrors(text) ==
  LET v == ValueAt(resume_data, ResponsibilitiesPath).l
      at == {"experience.0.responsibilities"}
              \cup {"experience.0.responsibilities." \o ToString(j - 1) : j \in 1..Len(v)}
  IN {k \in 1..Len(resp.errors.l) :
        /\ resp.errors.l[k].field \in at
        /\ Text(resp.errors.l[k].message) = text}

\* C27: the emoji check on responsibilities is a rule of each entry, apart
\* from the checks on the list: a list with an emoji in one entry and another
\* entry that is whitespace-only gets both an emoji error and an empty-entry
\* error.
C27_EmojiAndBlankBothReported ==
  flow = "validate" =>
    LET v == ValueAt(resume_data, ResponsibilitiesPath).l
    IN (\E i, j \in 1..Len(v) :
          i # j /\ emoji_search(v[j].s) /\ v[i].s # <<>> /\ Blank(v[i].s)) =>
         /\ ResponsibilityErrors(
              "Value error, Responsibilities cannot contain emojis, icons, or graphics") # {}
         /\ ResponsibilityErrors("Value error, Responsibilities cannot be empty") # {}

-----------------------------------------------------------------------------
(* Fields that violate several of their rules at once *)

\* a value that breaks two rules of its field, and the error the field gets:
\* the type of the error and the first fragment of its message
SeveralRules ==
  { [path |-> <<K("header"), K("name")>>, at |-> "header.name",
     val |-> Str(Rep(<<Ch.a>>, 100) \o <<Ch.grin>>),
     type |-> "string_too_long", msg |-> "String should have at most "],
    [path |-> <<K("experience"), I(1), K("company")>>, at |-> "experience.1.company",
     val |-> Str(<<Ch.rocket>> \o Rep(<<Ch.a>>, 100)),
     type |-> "string_too_long", msg |-> "String should have at most "],
    [path |-> <<K("education"), I(0), K("gpa")>>, at |-> "education.0.gpa",
     val |-> Str(Rep(<<Ch.d5>>, 10) \o <<Ch.check>>),
     type |-> "string_too_long", msg |-> "String should have at most "],
    [path |-> <<K("awards"), I(0), K("description")>>, at |-> "awards.0.description",
     val |-> Str(Rep(<<Ch.a, Ch.grin>>, 101)),
     type |-> "string_too_long", msg |-> "String should have at most "],
    [path |-> <<K("expertise"), K("summary")>>, at |-> "expertise.summary",
     val |-> Str(Words(2, <<Ch.sp>>) \o <<Ch.grin>>),
     type |-> "value_error", msg |-> "Value error, "],
    [path |-> <<K("expertise"), K("summary")>>, at |-> "expertise.summary",
     val |-> Str(<<Ch.globe, Ch.sp>> \o Words(120, <<Ch.sp>>)),
     type |-> "value_error", msg |-> "Value error, "],
    [path |-> <<K("experience"), I(0), K("responsibilities")>>,
     at |-> "experience.0.responsibilities",
     val |-> List(<<Str(TxtGrin), Str(<<>>)>>),
     type |-> "too_short", msg |-> "List should have at least "] }

\* an undeclared top-level key whose name reads like the path of a field
DottedKey == "header.name"

\* the accepted document with one or two of these values, with and without
\* the dotted key
SeveralRulesDocuments ==
  LET one == {SetAt(ValidResume, c.path, c.val) : c \in SeveralRules}
      two == {SetAt(d, c.path, c.val) : d \in one, c \in SeveralRules}
  IN one \cup two \cup {SetAt(d, <<K(DottedKey)>>, Str(TxtJan)) : d \in one}

InitSeveral == InitWith(SeveralRulesDocuments)

SpecSeveral == InitSeveral /\ [][Serve]_vars

\* C28 as stated: no field path occurs twice in the error list of a response.
C28_NoFieldPathTwice ==
  flow = "validate" =>
    \A i, j \in 1..Len(resp.errors.l) :
      i # j => resp.errors.l[i].field # resp.errors.l[j].field

\* C28, amended: no loc occurs twice among the errors of a validation, and
\* no dotted field path occurs twice in the response unless an undeclared
\* top-level key has a dot in its name. A field that violates several of its
\* rules at once gets exactly one error: that of the built-in type, length or
\* pattern constraint before that of a custom rule, and that of the word
\* count before that of the emoji rule.
C28_OneErrorPerField ==
  flow = "validate" =>
    LET errs == ResumeModel(resume_data).errs
        plain == DottedKey \notin Keys(resume_data)
    IN /\ \A i, j \in 1..Len(errs) : i # j => errs[i].loc # errs[j].loc
       /\ plain => \A i, j \in 1..Len(resp.errors.l) :
                     i # j => resp.errors.l[i].field # resp.errors.l[j].field
       /\ \A c \in SeveralRules :
            (plain /\ ValueAt(resume_data, c.path) = c.val) =>
              /\ Len(ErrorsAt(c.at)) = 1
              /\ ErrorsAt(c.at)[1].type = c.type
              /\ ErrorsAt(c.at)[1].message[1] = c.msg
              /\ c.at = "expertise.summary" =>
                   ErrorsAt(c.at)[1].message[2] = "Summary must be 80-120 words, got "

\* a summary of the wrong word count with an emoji, and a name that is too
\* long with an emoji, in the same document
C28_Witness ==
  /\ flow = "validate"
  /\ emoji_search(ValueAt(resume_data, <<K("expertise"), K("summary")>>).s)
  /\ Len(split(ValueAt(resume_data, <<K("expertise"), K("summary")>>).s)) = 2
  /\ emoji_search(ValueAt(resume_data, <<K("header"), K("name")>>).s)
  /\ Len(ValueAt(resume_data, <<K("header"), K("name")>>).s) = 101
  /\ Len(resp.errors.l) = 2

-----------------------------------------------------------------------------
(* Emoji in any string of the document *)

\* the string fields that have a pattern and no emoji validator
PatternFields ==
  { <<K("header"), K("email")>>, <<K("header"), K("phone")>>,
    <<K("experience"), I(0), K("start_date")>>,
    <<K("experience"), I(1), K("end_date")>>,
    <<K("projects"), I(0), K("start_date")>>,
    <<K("projects"), I(0), K("end_date")>>,
    <<K("education"), I(0), K("graduation_date")>>,
    <<K("awards"), I(0), K("date")>> }

StringFields == PatternFields \cup {f.path : f \in EmojiFields}

InitAnywhere ==
  InitWith({SetAt(ValidResume, path,
                  Str(Placed(ValueAt(ValidResume, path).s, c, where))) :
              path \in StringFields, c \in EmojiCodePoints, where \in Placements})

SpecAnywhere == InitAnywhere /\ [][Serve]_vars

\* whether a string of the value has a code point of the listed ranges
RECURSIVE CarriesEmoji(_)
CarriesEmoji(v) ==
  CASE v.t = "str" -> \E i \in 1..Len(v.s) : InListedRanges(v.s[i])
    [] v.t = "list" -> \E i \in 1..Len(v.l) : CarriesEmoji(v.l[i])
    [] v.t = "dict" -> \E i \in 1..Len(v.d) : CarriesEmoji(v.d[i].val)
    [] OTHER -> FALSE

\* C29: no string of a validated resume, header.email and header.phone
\* included, has a code point of the listed emoji ranges.
C29_NoEmojiAnywhere ==
  flow = "validate" /\ resp.valid => ~CarriesEmoji(resp.data)

-----------------------------------------------------------------------------
(* The awards of a validated resume *)

\* C30: the awards of every validated resume are a list, possibly empty, and
\* never null, whether the payload left awards out, gave an empty list or
\* gave null; the document generator is handed a list.
C30_AwardsAlwaysList ==
  /\ flow = "validate" /\ resp.valid => Get(resp.data, "awards").t = "list"
  /\ flow = "export" /\ resp.status = 200 =>
       Get(ResumeModel(resume_data).val, "awards").t = "list"

====
